---- MODULE Spec2Model ----
(***************************************************************************)
(* Verification model of the irp_integration client library: the job and  *)
(* workflow pollers, the submit-then-poll helper of the HTTP client core,  *)
(* tag resolution, EDM deletion and EDM creation.                          *)
(*                                                                         *)
(* One call of one public operation is in progress at a time (the library  *)
(* is single-threaded and blocking).  The remote platform is the           *)
(* environment: what a request returns is chosen by \E from small sets, or *)
(* read from the modelled server state.                                    *)
(***************************************************************************)
EXTENDS Integers, Sequences, FiniteSets, TLC

VARIABLES
    op,             \* the public operation this behaviour is one call of
    \* ---- single-job poll loop (client.py, job.py, analysis.py, ...) ----
    poller,         \* name of the poll function whose loop is running
    interval,       \* its interval argument
    timeout,        \* its timeout argument
    start,          \* start = time.time() taken at loop entry
    clock,          \* the wall clock, time.time()
    job_data,       \* body returned by the last fetch
    status,         \* local variable status of the loop
    fetches,        \* number of fetches made by this call
    sleeps,         \* number of time.sleep(interval) calls made by this call
    seen_terminal,  \* TRUE once a fetch of this call showed a terminal status
    p_pc,           \* position in the poll loop
    p_result,       \* value returned by the poll call
    p_error,        \* exception raised by the poll call
    \* ---- batch poll loops ----
    job_ids,        \* the job_ids (workflow_ids) argument
    idx,            \* position of the for loop over job_ids
    all_jobs,       \* local list all_jobs (all_workflows)
    all_completed,  \* local flag all_completed
    cycle_fetched,  \* the bodies fetched in the current cycle, in fetch order
    b_result,       \* list returned by the batch poll call
    offset,         \* local variable offset of the page loop
    job_response,   \* records of the last search response
    total_match_count,  \* local variable total_match_count (workflow batch)
    \* ---- the platform ----
    srv_jobs,       \* per job id: the status of its record, or NoRecord
    srv_total_extra,\* by how much totalMatchCount exceeds the records served
    \* ---- operations made of several requests ----
    o_pc,           \* position in the operation
    requests,       \* the requests the call has issued, oldest first
    o_result,       \* value the operation returned
    o_error,        \* exception the operation raised
    \* ---- Client.execute_workflow ----
    response,       \* local variable response (the submission's response)
    workflow_url,   \* local variable workflow_url
    \* ---- ReferenceDataManager.get_tag_ids_from_tag_names ----
    tag_names,      \* the tag_names argument
    tag_idx,        \* position of the for loop over tag_names
    tag_ids,        \* local list tag_ids
    srv_tags,       \* names of the tags that exist on the platform
    \* ---- EDMManager: delete_edm and the EDM-creating operations ----
    edm_names,      \* the EDM names the call was given, in order
    edm_idx,        \* position of the for loop over the EDMs to create
    exposure_id,    \* local variable exposure_id
    analyses,       \* local list analyses (ids of the analyses found)
    analysis_idx,   \* position of the for loop over analyses
    srv_edms,       \* names of the EDMs that exist on the platform
    srv_exposure_sets,  \* names of the exposure sets on the platform
    srv_analyses,   \* ids of the analyses of the EDM on the platform
    \* ---- AnalysisManager.submit_portfolio_analysis_job ----
    args,           \* the arguments of the call that decide its path
    software_version_code,  \* model_profile['softwareVersionCode']
    job_type,       \* local variable job_type
    event_rate_scheme_response,  \* response of the event rate scheme lookup
    event_rate_scheme_id,   \* local variable event_rate_scheme_id
    data,           \* local variable data, the body of the creation request
    \* ---- AnalysisManager.submit_analysis_grouping_job ----
    analysis_names, \* argument analysis_names
    name_idx,       \* position of the for loop in analysis_names
    skipped_items,  \* local variable skipped_items
    included_items, \* local variable included_items
    analysis_uris,  \* local variable analysis_uris
    srv_matches,    \* per name, how many analyses or groups the platform finds
    \* ---- lookups that go on with one record of a search ----
    found,          \* ids of the records the search returns, in its order
    \* ---- AnalysisManager.build_region_peril_simulation_set ----
    srv_infos,      \* per analysis id, what the platform answers for it
    id_idx,         \* position of the loop over analysis_ids
    all_regions,    \* local variable all_regions, the tagged regions
    has_plt,        \* local variable has_plt
    event_rate_schemes_by_peril_region,  \* the ids seen per (peril, region)
    region_idx,     \* position of the loop over all_regions
    seen,           \* local variable seen, the dedup keys
    result,         \* local variable result, the entries before the merge
    lookups,        \* the simulation set lookups made, in order
    \* ---- RDMManager.submit_rdm_export_job ----
    srv_databases,  \* names of the databases on the database server
    \* ---- DataBridgeManager ----
    connections,    \* the connections the call opened, "open" or "closed"
    query,          \* the query text, as a sequence of tokens
    params,         \* the params argument
    substituted,    \* what _substitute_named_parameters returned
    executed,       \* the texts handed to the database driver, in order
    \* ---- ReferenceDataManager.get_analysis_currency ----
    vintages_response,  \* response of the currency scheme vintage search
    \* ---- PortfolioManager.create_portfolio, by several callers ----
    srv_portfolios, \* names of the portfolios of the EDM on the platform
    c_pc,           \* per caller: its position in create_portfolio
    portfolios      \* per caller: local list portfolios, here its length

pollVars == <<poller, interval, timeout, start, clock, job_data, status,
              fetches, sleeps, seen_terminal, p_pc, p_result, p_error>>

batchVars == <<job_ids, idx, all_jobs, all_completed, cycle_fetched, b_result>>

pagedVars == <<offset, job_response, total_match_count>>

srvVars == <<srv_jobs, srv_total_extra>>

opVars == <<o_pc, requests, o_result, o_error>>

execVars == <<response, workflow_url>>

tagVars == <<tag_names, tag_idx, tag_ids, srv_tags>>

edmVars == <<edm_names, edm_idx, exposure_id, analyses, analysis_idx,
             srv_edms, srv_exposure_sets, srv_analyses>>

analysisVars == <<args, software_version_code, job_type,
                  event_rate_scheme_response, event_rate_scheme_id, data>>

groupingVars == <<analysis_names, name_idx, skipped_items, included_items,
                  analysis_uris, srv_matches>>

\* The variables of the operations modelled after the analysis submission.
lookupVars == <<found>>

buildVars == <<srv_infos, id_idx, all_regions, has_plt,
               event_rate_schemes_by_peril_region, region_idx, seen, result,
               lookups>>

exportVars == <<srv_databases>>

bridgeVars == <<connections, query, params, substituted, executed>>

currencyVars == <<vintages_response>>

portfolioVars == <<srv_portfolios, c_pc, portfolios>>

\* The variables of the RDM export, of the Data Bridge, of the currency
\* lookup and of the portfolio creation.
serviceVars == <<exportVars, bridgeVars, currencyVars, portfolioVars>>

managerVars == <<groupingVars, lookupVars, buildVars, serviceVars>>

\* What the operations of one manager leave alone among the variables of
\* the others.
outsideExec == <<tagVars, edmVars, analysisVars, managerVars>>

outsideTag == <<execVars, edmVars, analysisVars, managerVars>>

outsideEdm == <<execVars, tagVars, analysisVars, managerVars>>

outsideAnalysis == <<execVars, edmVars, managerVars>>

outsideGrouping == <<execVars, tagVars, edmVars, software_version_code,
                     job_type, event_rate_scheme_response,
                     event_rate_scheme_id, lookupVars, buildVars,
                     serviceVars>>

outsideLookup == <<execVars, tagVars, edmVars, analysisVars, groupingVars,
                   buildVars, serviceVars>>

outsideBuild == <<execVars, tagVars, edmVars, analysisVars, groupingVars,
                  lookupVars, serviceVars>>

\* Everything that belongs to no poller.
restVars == <<opVars, execVars, tagVars, edmVars, analysisVars, managerVars>>

vars == <<op, pollVars, batchVars, pagedVars, srvVars, restVars>>

\* What the single-job poll loop leaves alone.
outsidePoll == <<op, batchVars, pagedVars, srvVars, restVars>>

(***************************************************************************)
(* Bounds of the model.                                                    *)
(***************************************************************************)
MaxTimeout == 2
MaxInterval == 2
MaxDelay == 1
MaxPolls == 4
MaxJobs == 2

(***************************************************************************)
(* constants.py                                                            *)
(***************************************************************************)
WORKFLOW_COMPLETED_STATUSES == {"FINISHED", "FAILED", "CANCELLED"}

WORKFLOW_IN_PROGRESS_STATUSES ==
    {"QUEUED", "PENDING", "RUNNING", "CANCEL_REQUESTED", "CANCELLING"}

\* A status string the platform may send that is in neither list.
OtherStatuses == {"SUSPENDED"}

\* Marks a key that is absent from a response dict.
Absent == "<absent>"

None == "<None>"

StatusValues ==
    WORKFLOW_COMPLETED_STATUSES \cup WORKFLOW_IN_PROGRESS_STATUSES
        \cup OtherStatuses

\* The job bodies a fetch can return: a dict with or without the keys
\* 'status' and 'progress'.
JobBodies ==
    [status : StatusValues \cup {Absent}, progress : {"50", Absent}]

\* The value of job_data and of the result before anything was fetched.
NoBody == [status |-> None, progress |-> None]

NoError == [kind |-> None, last_status |-> None]

Min(a, b) == IF a < b THEN a ELSE b

(***************************************************************************)
(* The single-job pollers.  They share one loop; they differ in the fetch  *)
(* call, in whether 'progress' is read with [] or with .get(), and in the  *)
(* error raised on timeout.                                                *)
(***************************************************************************)
SingleJobPollers ==
    { "Client.poll_workflow_to_completion",
      "JobManager.poll_risk_data_job_to_completion",
      "AnalysisManager.poll_analysis_job_to_completion",
      "AnalysisManager.poll_analysis_grouping_job_to_completion",
      "PortfolioManager.poll_geohaz_job_to_completion",
      "RDMManager.poll_rdm_export_job_to_completion",
      "EDMManager.poll_import_job_to_completion",
      "ImportJobManager.poll_import_job_to_completion",
      "ExportJobManager.poll_export_job_to_completion" }

\* progress = job_data.get('progress', 0) instead of job_data['progress']
ProgressOptional ==
    { "EDMManager.poll_import_job_to_completion",
      "ImportJobManager.poll_import_job_to_completion",
      "ExportJobManager.poll_export_job_to_completion",
      "Client.poll_workflow" }

\* status = workflow_data.get('status', '') instead of job_data['status']
StatusOptional == { "Client.poll_workflow" }

\* The try block around the two reads: TRUE when it raises KeyError.
ExtractRaises(p, body) ==
    \/ p \notin StatusOptional /\ body.status = Absent
    \/ p \notin ProgressOptional /\ body.progress = Absent

ExtractStatus(p, body) ==
    IF body.status = Absent THEN "" ELSE body.status

\* if status in WORKFLOW_COMPLETED_STATUSES: return job_data
IsCompletedMutant(s) == s \notin WORKFLOW_IN_PROGRESS_STATUSES

IsCompletedFinishedMutant(s) == s = "FINISHED"

IsCompletedNeverMutant(s) == FALSE

IsCompleted(s) == s \in WORKFLOW_COMPLETED_STATUSES

\* if time.time() - start > timeout: raise
TimedOutMutant(now, t0, limit) == now - t0 > limit * 1000

TimedOut(now, t0, limit) == now - t0 > limit

TimeoutErrorKind(p) ==
    IF p = "Client.poll_workflow" THEN "IRPWorkflowError" ELSE "IRPJobError"

\* The clock is kept exactly up to the first value past the timeout; every
\* later value compares with the timeout the same way.
ClockCap == start + timeout + 1

Advance(d) == Min(clock + d, ClockCap)

\* What time.sleep(interval) can take: the interval, or long enough to
\* overrun the timeout (the process was suspended).  The short sleep is
\* explored for the first MaxPolls sleeps only.
SleepDurations ==
    (IF sleeps < MaxPolls THEN {interval} ELSE {}) \cup {timeout + 1}

EnterPollLoop(p, i, t) ==
    /\ poller' = p
    /\ interval' = i
    /\ timeout' = t
    /\ start' = clock
    /\ p_pc' = "fetch"
    /\ UNCHANGED <<clock, job_data, status, fetches, sleeps, seen_terminal,
                   p_result, p_error>>

BatchIdle ==
    /\ job_ids = <<>>
    /\ idx = 0
    /\ all_jobs = <<>>
    /\ all_completed = FALSE
    /\ cycle_fetched = <<>>
    /\ b_result = <<>>

PagedIdle ==
    /\ offset = 0
    /\ job_response = <<>>
    /\ total_match_count = 0

SrvIdle ==
    /\ srv_jobs = <<>>
    /\ srv_total_extra = 0

NoResponse == [status_code |-> 0, location |-> None]

OpIdle ==
    /\ o_pc = "idle"
    /\ requests = <<>>
    /\ o_result = None
    /\ o_error = NoError

ExecIdle ==
    /\ response = NoResponse
    /\ workflow_url = None

TagIdle ==
    /\ tag_names = <<>>
    /\ tag_idx = 0
    /\ tag_ids = <<>>
    /\ srv_tags = {}

EdmIdle ==
    /\ edm_names = <<>>
    /\ edm_idx = 0
    /\ exposure_id = 0
    /\ analyses = <<>>
    /\ analysis_idx = 0
    /\ srv_edms = {}
    /\ srv_exposure_sets = {}
    /\ srv_analyses = {}

\* None, in a variable that otherwise holds an integer.
NoneInt == -1

NoSchemes == [count |-> 0, items |-> <<>>]

NoData == [type |-> None, settings |-> {}, eventRateSchemeId |-> NoneInt]

AnalysisIdle ==
    /\ args = None
    /\ software_version_code = <<>>
    /\ job_type = None
    /\ event_rate_scheme_response = NoSchemes
    /\ event_rate_scheme_id = NoneInt
    /\ data = NoData

GroupingIdle ==
    /\ analysis_names = <<>>
    /\ name_idx = 0
    /\ skipped_items = <<>>
    /\ included_items = <<>>
    /\ analysis_uris = <<>>
    /\ srv_matches = <<>>

LookupIdle == found = <<>>

BuildIdle ==
    /\ srv_infos = <<>>
    /\ id_idx = 0
    /\ all_regions = <<>>
    /\ has_plt = FALSE
    /\ event_rate_schemes_by_peril_region = {}
    /\ region_idx = 0
    /\ seen = {}
    /\ result = <<>>
    /\ lookups = <<>>

\* The params argument: None, or a dict from parameter names to values.
NoParams == [kind |-> "None", items |-> <<>>]

NoVintages == [ok |-> FALSE, has_items |-> FALSE, items |-> <<>>]

ExportIdle == srv_databases = {}

BridgeIdle ==
    /\ connections = <<>>
    /\ query = <<>>
    /\ params = NoParams
    /\ substituted = <<>>
    /\ executed = <<>>

CurrencyIdle == vintages_response = NoVintages

PortfolioIdle ==
    /\ srv_portfolios = {}
    /\ c_pc = <<>>
    /\ portfolios = <<>>

ServiceIdle == ExportIdle /\ BridgeIdle /\ CurrencyIdle /\ PortfolioIdle

ManagersIdle == GroupingIdle /\ LookupIdle /\ BuildIdle /\ ServiceIdle

RestIdle ==
    /\ OpIdle
    /\ ExecIdle
    /\ TagIdle
    /\ EdmIdle
    /\ AnalysisIdle
    /\ ManagersIdle

PollIdle ==
    /\ poller = None
    /\ interval = 0
    /\ timeout = 0
    /\ start = 0
    /\ clock = 0
    /\ job_data = NoBody
    /\ status = None
    /\ fetches = 0
    /\ sleeps = 0
    /\ seen_terminal = FALSE
    /\ p_pc = "idle"
    /\ p_result = NoBody
    /\ p_error = NoError

\* One fetch of the loop: the get_* call, then the reads of status and
\* progress.  The get_* call turns every failure into IRPAPIError;
\* Client.poll_workflow calls Client.request, which raises IRPAPIError itself.
PollFetch ==
    /\ p_pc = "fetch"
    /\ \E d \in 0..MaxDelay :
        /\ clock' = Advance(d)
        /\ fetches' = Min(fetches + 1, MaxPolls + 1)
        /\ \/ \* the request fails
              /\ p_pc' = "raised"
              /\ p_error' = [kind |-> "IRPAPIError", last_status |-> None]
              /\ UNCHANGED <<job_data, status, seen_terminal>>
           \/ \E body \in JobBodies :
              /\ job_data' = body
              /\ seen_terminal' =
                    (seen_terminal \/ body.status \in WORKFLOW_COMPLETED_STATUSES)
              /\ IF ExtractRaises(poller, body)
                    THEN /\ p_pc' = "raised"
                         /\ p_error' = [kind |-> "IRPAPIError",
                                        last_status |-> None]
                         /\ UNCHANGED status
                    ELSE /\ p_pc' = "check"
                         /\ status' = ExtractStatus(poller, body)
                         /\ UNCHANGED p_error
    /\ UNCHANGED <<poller, interval, timeout, start, sleeps, p_result>>
    /\ UNCHANGED outsidePoll

\* The rest of the iteration: terminal check, timeout check, sleep.
PollCheck ==
    /\ p_pc = "check"
    /\ IF IsCompleted(status)
          THEN /\ p_pc' = "returned"
               /\ p_result' = job_data
               /\ UNCHANGED <<clock, sleeps, p_error>>
          ELSE IF TimedOut(clock, start, timeout)
          THEN /\ p_pc' = "raised"
               /\ p_error' = [kind |-> TimeoutErrorKind(poller),
                              last_status |-> status]
               /\ UNCHANGED <<clock, sleeps, p_result>>
          ELSE /\ \E d \in SleepDurations : clock' = Advance(d)
               /\ sleeps' = Min(sleeps + 1, MaxPolls + 1)
               /\ p_pc' = "fetch"
               /\ UNCHANGED <<p_result, p_error>>
    /\ UNCHANGED <<poller, interval, timeout, start, job_data, status,
                   fetches, seen_terminal>>
    /\ UNCHANGED outsidePoll

(***************************************************************************)
(* A direct call of one single-job poller.  validate_positive_int has let  *)
(* interval and timeout through, so both are at least 1.                   *)
(***************************************************************************)
PollInit ==
    /\ op = "poll"
    /\ poller \in SingleJobPollers
    /\ interval \in 1..MaxInterval
    /\ timeout \in 1..MaxTimeout
    /\ start = 0
    /\ clock = 0
    /\ job_data = NoBody
    /\ status = None
    /\ fetches = 0
    /\ sleeps = 0
    /\ seen_terminal = FALSE
    /\ p_pc = "fetch"
    /\ p_result = NoBody
    /\ p_error = NoError
    /\ BatchIdle
    /\ PagedIdle
    /\ SrvIdle
    /\ RestIdle

PollNext == PollFetch \/ PollCheck

PollSpec == PollInit /\ [][PollNext]_vars

FairPollSpec == PollSpec /\ WF_vars(PollNext)

(***************************************************************************)
(* The per-id batch pollers: each cycle fetches the jobs one by one, in    *)
(* the order of job_ids.                                                   *)
(***************************************************************************)
PerIdBatchPollers ==
    { "AnalysisManager.poll_analysis_grouping_job_batch_to_completion",
      "PortfolioManager.poll_geohaz_job_batch_to_completion",
      "EDMManager.poll_data_version_upgrade_job_batch_to_completion" }

JobIds == 1..MaxJobs

\* Non-empty lists of distinct job ids (validate_list_not_empty has passed).
JobIdLists ==
    { l \in UNION { [1..n -> JobIds] : n \in 1..MaxJobs } :
        \A i, j \in DOMAIN l : i # j => l[i] # l[j] }

\* The statuses the platform serves in the batch models.
ServedStatuses ==
    {"FINISHED", "FAILED", "RUNNING", "CANCELLING", "SUSPENDED", Absent}

IsInProgress(s) == s \in WORKFLOW_IN_PROGRESS_STATUSES

BatchInit ==
    /\ op = "poll_batch"
    /\ poller \in PerIdBatchPollers
    /\ interval \in 1..MaxInterval
    /\ timeout \in 1..MaxTimeout
    /\ start = 0
    /\ clock = 0
    /\ job_data = NoBody
    /\ status = None
    /\ fetches = 0
    /\ sleeps = 0
    /\ seen_terminal = FALSE
    /\ p_pc = "loop"
    /\ p_result = NoBody
    /\ p_error = NoError
    /\ job_ids \in JobIdLists
    /\ idx = 1
    /\ all_jobs = <<>>
    /\ all_completed = FALSE
    /\ cycle_fetched = <<>>
    /\ b_result = <<>>
    /\ PagedIdle
    /\ SrvIdle
    /\ RestIdle

\* One iteration of "for job_id in job_ids": fetch, append, read the status,
\* break on an in-progress status, else set all_completed.
BatchFetch ==
    /\ p_pc = "loop"
    /\ idx <= Len(job_ids)
    /\ \E d \in 0..MaxDelay :
        /\ clock' = Advance(d)
        /\ \/ \* the request fails
              /\ p_pc' = "raised"
              /\ p_error' = [kind |-> "IRPAPIError", last_status |-> None]
              /\ UNCHANGED <<idx, all_jobs, all_completed, cycle_fetched>>
           \/ \E s \in ServedStatuses :
              LET workflow_response == [id |-> job_ids[idx], status |-> s] IN
              /\ cycle_fetched' = Append(cycle_fetched, workflow_response)
              /\ IF s = Absent
                    THEN /\ p_pc' = "raised"
                         /\ p_error' = [kind |-> "IRPAPIError",
                                        last_status |-> None]
                         /\ all_jobs' = Append(all_jobs, workflow_response)
                         /\ UNCHANGED <<idx, all_completed>>
                    ELSE IF IsInProgress(s)
                    THEN \* all_jobs = []; break
                         /\ all_jobs' = <<>>
                         /\ p_pc' = "check"
                         /\ UNCHANGED <<idx, all_completed, p_error>>
                    ELSE /\ all_jobs' = Append(all_jobs, workflow_response)
                         /\ all_completed' = TRUE
                         /\ idx' = idx + 1
                         /\ p_pc' = IF idx = Len(job_ids) THEN "check"
                                                          ELSE "loop"
                         /\ UNCHANGED p_error
    /\ UNCHANGED <<op, poller, interval, timeout, start, job_data, status,
                   fetches, sleeps, seen_terminal, p_result, job_ids,
                   b_result>>
    /\ UNCHANGED <<pagedVars, srvVars, restVars>>

\* After the for loop: return, or raise on timeout, or sleep and start the
\* next cycle (all_completed = False, all_jobs = []).
BatchCheck ==
    /\ p_pc = "check"
    /\ IF all_completed
          THEN /\ p_pc' = "returned"
               /\ b_result' = all_jobs
               /\ UNCHANGED <<clock, sleeps, p_error, idx, all_jobs,
                              all_completed, cycle_fetched>>
          ELSE IF TimedOut(clock, start, timeout)
          THEN /\ p_pc' = "raised"
               /\ p_error' = [kind |-> "IRPJobError", last_status |-> None]
               /\ UNCHANGED <<clock, sleeps, b_result, idx, all_jobs,
                              all_completed, cycle_fetched>>
          ELSE /\ \E d \in SleepDurations : clock' = Advance(d)
               /\ sleeps' = Min(sleeps + 1, MaxPolls + 1)
               /\ p_pc' = "loop"
               /\ idx' = 1
               /\ all_jobs' = <<>>
               /\ all_completed' = FALSE
               /\ cycle_fetched' = <<>>
               /\ UNCHANGED <<b_result, p_error>>
    /\ UNCHANGED <<op, poller, interval, timeout, start, job_data, status,
                   fetches, seen_terminal, p_result, job_ids>>
    /\ UNCHANGED <<pagedVars, srvVars, restVars>>

BatchNext == BatchFetch \/ BatchCheck

BatchSpec == BatchInit /\ [][BatchNext]_vars

(***************************************************************************)
(* The paged batch pollers: each cycle pages through a search endpoint,    *)
(* accumulates the records, and then looks for an in-progress status.      *)
(***************************************************************************)
PagedBatchPollers ==
    { "JobManager.poll_risk_data_job_batch_to_completion",
      "AnalysisManager.poll_analysis_job_batch_to_completion",
      "Client.poll_workflow_batch_to_completion" }

\* limit = 100
PAGE_LIMIT == 100

\* Offsets past the last record all get an empty page; the offset is kept
\* exactly up to this value.
OffsetCap == 2 * PAGE_LIMIT

NoRecord == "<no record>"

\* The records matching the id filter, by ascending id, up to id k.
RECURSIVE MatchingUpTo(_)
MatchingUpTo(k) ==
    IF k = 0 THEN <<>>
    ELSE MatchingUpTo(k - 1) \o
         (IF /\ \E i \in DOMAIN job_ids : job_ids[i] = k
             /\ srv_jobs[k] # NoRecord
             THEN <<[id |-> k, status |-> srv_jobs[k]]>>
             ELSE <<>>)

\* The page the platform serves for (limit, offset).
SearchPage(lim, off) ==
    LET m == MatchingUpTo(MaxJobs) IN
    SubSeq(m, off + 1, Min(Len(m), off + lim))

\* if len(job_response) == 0: break      (job.py only)
BreaksOnEmptyPage(p) ==
    p = "JobManager.poll_risk_data_job_batch_to_completion"

\* The count the accumulation is compared with.
PageTarget(p) ==
    IF p = "Client.poll_workflow_batch_to_completion"
        THEN total_match_count
        ELSE Len(job_ids)

\* status = job.get('status', '')
RecordStatus(r) == IF r.status = Absent THEN "" ELSE r.status

\* for job in all_jobs: if status in WORKFLOW_IN_PROGRESS_STATUSES: ...
AllCompleted(jobs) ==
    \A i \in 1..Len(jobs) : ~IsInProgress(RecordStatus(jobs[i]))

PagedTimeoutErrorKind(p) ==
    IF p = "Client.poll_workflow_batch_to_completion"
        THEN "IRPWorkflowError"
        ELSE "IRPJobError"

PagedInit ==
    /\ op = "poll_paged_batch"
    /\ poller \in PagedBatchPollers
    /\ interval \in 1..MaxInterval
    /\ timeout \in 1..MaxTimeout
    /\ start = 0
    /\ clock = 0
    /\ job_data = NoBody
    /\ status = None
    /\ fetches = 0
    /\ sleeps = 0
    /\ seen_terminal = FALSE
    /\ p_pc = "search"
    /\ p_result = NoBody
    /\ p_error = NoError
    /\ job_ids \in JobIdLists
    /\ idx = 0
    /\ all_jobs = <<>>
    /\ all_completed = FALSE
    /\ cycle_fetched = <<>>
    /\ b_result = <<>>
    /\ offset = 0
    /\ job_response = <<>>
    /\ total_match_count = 0
    /\ srv_jobs \in [JobIds -> ServedStatuses \cup {NoRecord}]
    /\ srv_total_extra \in
         IF poller = "Client.poll_workflow_batch_to_completion"
            THEN {0, 1} ELSE {0}
    /\ RestIdle

\* The platform changes the status of a job record.
ServerStep ==
    /\ p_pc \in {"search", "extend", "check"}
    /\ \E k \in JobIds, s \in ServedStatuses :
        /\ srv_jobs[k] \in WORKFLOW_IN_PROGRESS_STATUSES
        /\ s # srv_jobs[k]
        /\ srv_jobs' = [srv_jobs EXCEPT ![k] = s]
    /\ UNCHANGED <<op, pollVars, batchVars, pagedVars, srv_total_extra,
                   restVars>>

\* One search request of the page loop.
PagedSearch ==
    /\ p_pc = "search"
    /\ \E d \in 0..MaxDelay :
        /\ clock' = Advance(d)
        /\ \/ \* the request fails
              /\ p_pc' = "raised"
              /\ p_error' = [kind |-> "IRPAPIError", last_status |-> None]
              /\ UNCHANGED <<job_response, total_match_count>>
           \/ /\ job_response' = SearchPage(PAGE_LIMIT, offset)
              /\ total_match_count' =
                    IF poller = "Client.poll_workflow_batch_to_completion"
                        THEN Len(MatchingUpTo(MaxJobs)) + srv_total_extra
                        ELSE total_match_count
              /\ p_pc' = "extend"
              /\ UNCHANGED p_error
    /\ UNCHANGED <<op, poller, interval, timeout, start, job_data, status,
                   fetches, sleeps, seen_terminal, p_result, batchVars,
                   offset, srvVars, restVars>>

\* The rest of one iteration of the page loop.
PagedExtend ==
    /\ p_pc = "extend"
    /\ IF BreaksOnEmptyPage(poller) /\ Len(job_response) = 0
          THEN /\ p_pc' = "check"
               /\ UNCHANGED <<all_jobs, offset>>
          ELSE /\ all_jobs' = all_jobs \o job_response
               /\ IF Len(all_jobs') >= PageTarget(poller)
                     THEN /\ p_pc' = "check"
                          /\ UNCHANGED offset
                     ELSE /\ offset' = Min(offset + PAGE_LIMIT, OffsetCap)
                          /\ p_pc' = "search"
    /\ UNCHANGED <<op, poller, interval, timeout, start, clock, job_data,
                   status, fetches, sleeps, seen_terminal, p_result, p_error,
                   job_ids, idx, all_completed, cycle_fetched, b_result,
                   job_response, total_match_count, srvVars, restVars>>

\* After the page loop: the all_completed scan, return, timeout, sleep.
PagedCheck ==
    /\ p_pc = "check"
    /\ all_completed' = AllCompleted(all_jobs)
    /\ IF all_completed'
          THEN /\ p_pc' = "returned"
               /\ b_result' =
                    IF poller = "Client.poll_workflow_batch_to_completion"
                        THEN job_response ELSE all_jobs
               /\ UNCHANGED <<clock, sleeps, p_error, all_jobs, offset>>
          ELSE IF TimedOut(clock, start, timeout)
          THEN /\ p_pc' = "raised"
               /\ p_error' = [kind |-> PagedTimeoutErrorKind(poller),
                              last_status |-> None]
               /\ UNCHANGED <<clock, sleeps, b_result, all_jobs, offset>>
          ELSE /\ \E d \in SleepDurations : clock' = Advance(d)
               /\ sleeps' = Min(sleeps + 1, MaxPolls + 1)
               /\ p_pc' = "search"
               /\ all_jobs' = <<>>
               /\ offset' = 0
               /\ UNCHANGED <<b_result, p_error>>
    /\ UNCHANGED <<op, poller, interval, timeout, start, job_data, status,
                   fetches, seen_terminal, p_result, job_ids, idx,
                   cycle_fetched, job_response, total_match_count, srvVars,
                   restVars>>

PagedNext == PagedSearch \/ PagedExtend \/ PagedCheck \/ ServerStep

PagedSpec == PagedInit /\ [][PagedNext]_vars

\* The client keeps running; nothing obliges the platform to move.
FairPagedSpec ==
    /\ PagedSpec
    /\ WF_vars(PagedSearch)
    /\ WF_vars(PagedExtend)
    /\ WF_vars(PagedCheck)

(***************************************************************************)
(* Client.execute_workflow: submit a request, then poll the workflow the   *)
(* response points to.                                                     *)
(***************************************************************************)
\* Status codes of a response that Client.request returns (raise_for_status
\* has turned every 4xx and 5xx response into IRPAPIError).
ResponseStatusCodes == {200, 201, 202, 204}

WorkflowUrls == {"https://host/workflows/7", "https://host/workflows/8"}

\* The Location header of a response: absent, empty, or a URL.
LocationHeaders == {Absent, ""} \cup WorkflowUrls

Responses == [status_code : ResponseStatusCodes, location : LocationHeaders]

\* Defaults of Client.poll_workflow, which execute_workflow relies on.
POLL_WORKFLOW_INTERVAL == 10

POLL_WORKFLOW_TIMEOUT == 600000

\* if response.status_code not in (201, 202): return response
NeedsPollMutant(status_code) == status_code = 202

NeedsPoll(status_code) == status_code \in {201, 202}

\* utils.get_location_header: the raw header, None when there is none.
get_location_header(r) == IF r.location = Absent THEN None ELSE r.location

\* Python truth value of a header value: None and "" are false.
Truthy(v) == v # None /\ v # ""

ExecInit ==
    /\ op = "Client.execute_workflow"
    /\ o_pc = "submit"
    /\ requests = <<>>
    /\ o_result = NoResponse
    /\ o_error = NoError
    /\ ExecIdle
    /\ TagIdle
    /\ EdmIdle
    /\ AnalysisIdle
    /\ ManagersIdle
    /\ PollIdle
    /\ BatchIdle
    /\ PagedIdle
    /\ SrvIdle

\* The whole body of execute_workflow up to the call of poll_workflow.
ExecSubmit ==
    /\ o_pc = "submit"
    /\ requests' = Append(requests, [method |-> "SUBMIT", path |-> "path"])
    /\ \/ \* Client.request raises
          /\ o_pc' = "raised"
          /\ o_error' = [kind |-> "IRPAPIError", last_status |-> None]
          /\ UNCHANGED <<o_result, response, workflow_url, pollVars>>
       \/ \E r \in Responses :
          /\ response' = r
          /\ IF ~NeedsPoll(r.status_code)
                THEN /\ o_pc' = "returned"
                     /\ o_result' = r
                     /\ UNCHANGED <<o_error, workflow_url, pollVars>>
                ELSE IF ~Truthy(get_location_header(r))
                THEN /\ workflow_url' = get_location_header(r)
                     /\ o_pc' = "raised"
                     /\ o_error' = [kind |-> "IRPAPIError",
                                    last_status |-> None]
                     /\ UNCHANGED <<o_result, pollVars>>
                ELSE /\ workflow_url' = get_location_header(r)
                     /\ o_pc' = "polling"
                     /\ EnterPollLoop("Client.poll_workflow",
                                      POLL_WORKFLOW_INTERVAL,
                                      POLL_WORKFLOW_TIMEOUT)
                     /\ UNCHANGED <<o_result, o_error>>
    /\ UNCHANGED <<op, batchVars, pagedVars, srvVars, outsideExec>>

\* return self.poll_workflow(workflow_url): the call ends as the poll ends.
ExecNext == ExecSubmit \/ PollFetch \/ PollCheck

ExecSpec == ExecInit /\ [][ExecNext]_vars

(***************************************************************************)
(* validators.py: each helper raises IRPValidationError when its condition *)
(* is violated.                                                            *)
(***************************************************************************)
ValidateListNotEmptyRaises(l) == Len(l) = 0

ValidateNonEmptyStringRaises(v) == v = ""

ValidationError == [kind |-> "IRPValidationError", last_status |-> None]

APIError == [kind |-> "IRPAPIError", last_status |-> None]

(***************************************************************************)
(* ReferenceDataManager.get_tag_ids_from_tag_names: look each tag up by    *)
(* name and create the ones that do not exist.                             *)
(***************************************************************************)
MaxTags == 2

TagNames == {"", "a", "b"}

TagNameLists == UNION { [1..n -> TagNames] : n \in 0..MaxTags }

\* The id the platform gives the tag of a name.
TagId(name) == IF name = "a" THEN 1 ELSE 2

TagInit ==
    /\ op = "ReferenceDataManager.get_tag_ids_from_tag_names"
    /\ o_pc = "validate"
    /\ requests = <<>>
    /\ o_result = <<>>
    /\ o_error = NoError
    /\ tag_names \in TagNameLists
    /\ tag_idx = 0
    /\ tag_ids = <<>>
    /\ srv_tags \in SUBSET (TagNames \ {""})
    /\ ExecIdle
    /\ EdmIdle
    /\ AnalysisIdle
    /\ ManagersIdle
    /\ PollIdle
    /\ BatchIdle
    /\ PagedIdle
    /\ SrvIdle

\* validate_list_not_empty(tag_names, "tag_names")
TagValidate ==
    /\ o_pc = "validate"
    /\ IF ValidateListNotEmptyRaises(tag_names)
          THEN /\ o_pc' = "raised"
               /\ o_error' = ValidationError
               /\ UNCHANGED tag_idx
          ELSE /\ o_pc' = "lookup"
               /\ tag_idx' = 1
               /\ UNCHANGED o_error
    /\ UNCHANGED <<op, requests, o_result, tag_names, tag_ids, srv_tags,
                   outsideTag, pollVars, batchVars, pagedVars, srvVars>>

\* One iteration of the for loop up to the branch on the search response:
\* get_tag_by_name(tag_name), then the tagId of the first tag found.
TagLookup ==
    /\ o_pc = "lookup"
    /\ LET tag_name == tag_names[tag_idx] IN
       IF ValidateNonEmptyStringRaises(tag_name)
          THEN /\ o_pc' = "raised"
               /\ o_error' = ValidationError
               /\ UNCHANGED <<requests, tag_idx, tag_ids, o_result>>
          ELSE /\ requests' = Append(requests,
                                [method |-> "GET", path |-> "GET_TAGS"])
               /\ \/ \* the request fails, or the tag found has no 'tagId'
                     /\ o_pc' = "raised"
                     /\ o_error' = APIError
                     /\ UNCHANGED <<tag_idx, tag_ids, o_result>>
                  \/ /\ tag_name \in srv_tags
                     /\ tag_ids' = Append(tag_ids, TagId(tag_name))
                     /\ tag_idx' = tag_idx + 1
                     /\ IF tag_idx = Len(tag_names)
                           THEN o_pc' = "returned" /\ o_result' = tag_ids'
                           ELSE o_pc' = "lookup" /\ UNCHANGED o_result
                     /\ UNCHANGED o_error
                  \/ /\ tag_name \notin srv_tags
                     /\ o_pc' = "create"
                     /\ UNCHANGED <<tag_idx, tag_ids, o_result, o_error>>
    /\ UNCHANGED <<op, tag_names, srv_tags,
                   outsideTag, pollVars, batchVars, pagedVars, srvVars>>

\* The else branch of the iteration: create_tag(tag_name).
TagCreate ==
    /\ o_pc = "create"
    /\ LET tag_name == tag_names[tag_idx] IN
       IF ValidateNonEmptyStringRaises(tag_name)
          THEN /\ o_pc' = "raised"
               /\ o_error' = ValidationError
               /\ UNCHANGED <<requests, tag_idx, tag_ids, o_result, srv_tags>>
          ELSE /\ requests' = Append(requests,
                                [method |-> "POST", path |-> "CREATE_TAG"])
               /\ \/ \* the request fails, or its Location header is unusable
                     /\ o_pc' = "raised"
                     /\ o_error' = APIError
                     /\ UNCHANGED <<tag_idx, tag_ids, o_result, srv_tags>>
                  \/ /\ srv_tags' = srv_tags \cup {tag_name}
                     /\ tag_ids' = Append(tag_ids, TagId(tag_name))
                     /\ tag_idx' = tag_idx + 1
                     /\ IF tag_idx = Len(tag_names)
                           THEN o_pc' = "returned" /\ o_result' = tag_ids'
                           ELSE o_pc' = "lookup" /\ UNCHANGED o_result
                     /\ UNCHANGED o_error
    /\ UNCHANGED <<op, tag_names,
                   outsideTag, pollVars, batchVars, pagedVars, srvVars>>

TagNext == TagValidate \/ TagLookup \/ TagCreate

TagSpec == TagInit /\ [][TagNext]_vars

(***************************************************************************)
(* EDMManager.delete_edm: delete the analyses of the EDM, submit the EDM   *)
(* delete job, poll it.                                                    *)
(***************************************************************************)
EdmNames == {"E1", "E2"}

\* search_analyses(filter, limit=100, offset=0)
SEARCH_ANALYSES_LIMIT == 100

\* How many analyses the EDM can have on the platform.
AnalysisCounts ==
    {0, 1, 2, SEARCH_ANALYSES_LIMIT, SEARCH_ANALYSES_LIMIT + 1}

\* Defaults of poll_risk_data_job_to_completion, which delete_edm relies on.
POLL_RISK_DATA_JOB_INTERVAL == 10

POLL_RISK_DATA_JOB_TIMEOUT == 600000

\* The values 'exposureId' can have in a search record.
ExposureIdValues == {0, 7}

ValidatePositiveIntRaises(v) == v <= 0

ReferenceDataError == [kind |-> "IRPReferenceDataError", last_status |-> None]

Request(m, p, succeeded) == [method |-> m, path |-> p, ok |-> succeeded]

\* The page search_analyses returns: the matching analyses by ascending id,
\* at most lim of them.
SearchAnalyses(lim) ==
    LET first == IF srv_analyses = {} THEN 1
                 ELSE CHOOSE i \in srv_analyses :
                        \A j \in srv_analyses : i <= j
        n == Min(Cardinality(srv_analyses), lim)
    IN  [k \in 1..n |-> first + k - 1]

DeleteEdmInit ==
    /\ op = "EDMManager.delete_edm"
    /\ o_pc = "lookup"
    /\ requests = <<>>
    /\ o_result = NoBody
    /\ o_error = NoError
    /\ edm_names \in { <<n>> : n \in EdmNames \cup {""} }
    /\ edm_idx = 1
    /\ exposure_id = 0
    /\ analyses = <<>>
    /\ analysis_idx = 0
    /\ srv_edms \in SUBSET EdmNames
    /\ srv_exposure_sets = srv_edms
    /\ srv_analyses \in { 1..n : n \in AnalysisCounts }
    /\ ExecIdle
    /\ TagIdle
    /\ AnalysisIdle
    /\ ManagersIdle
    /\ PollIdle
    /\ BatchIdle
    /\ PagedIdle
    /\ SrvIdle

\* Validation, the EDM search, and the two searches' results: the EDM's
\* exposure id and the list analyses.
DeleteEdmLookup ==
    /\ o_pc = "lookup"
    /\ LET edm_name == edm_names[1] IN
       IF ValidateNonEmptyStringRaises(edm_name)
          THEN /\ o_pc' = "raised"
               /\ o_error' = ValidationError
               /\ UNCHANGED <<requests, exposure_id, analyses, analysis_idx>>
          ELSE
          \/ \* search_edms fails
             /\ requests' = Append(requests, Request("GET", "SEARCH_EDMS", FALSE))
             /\ o_pc' = "raised"
             /\ o_error' = APIError
             /\ UNCHANGED <<exposure_id, analyses, analysis_idx>>
          \/ \* len(edms) != 1, or the record has no 'exposureId'
             /\ requests' = Append(requests, Request("GET", "SEARCH_EDMS", TRUE))
             /\ o_pc' = "raised"
             /\ o_error' = APIError
             /\ UNCHANGED <<exposure_id, analyses, analysis_idx>>
          \/ \* search_analyses fails
             /\ edm_name \in srv_edms
             /\ \E e \in ExposureIdValues : exposure_id' = e
             /\ requests' = requests \o
                    << Request("GET", "SEARCH_EDMS", TRUE),
                       Request("GET", "SEARCH_ANALYSIS_RESULTS", FALSE) >>
             /\ o_pc' = "raised"
             /\ o_error' = APIError
             /\ UNCHANGED <<analyses, analysis_idx>>
          \/ /\ edm_name \in srv_edms
             /\ \E e \in ExposureIdValues : exposure_id' = e
             /\ requests' = requests \o
                    << Request("GET", "SEARCH_EDMS", TRUE),
                       Request("GET", "SEARCH_ANALYSIS_RESULTS", TRUE) >>
             /\ analyses' = SearchAnalyses(SEARCH_ANALYSES_LIMIT)
             /\ analysis_idx' = 1
             /\ o_pc' = IF Len(analyses') = 0 THEN "submit" ELSE "delete"
             /\ UNCHANGED o_error
    /\ UNCHANGED <<op, o_result, edm_names, edm_idx, srv_edms,
                   srv_exposure_sets, srv_analyses, outsideEdm,
                   pollVars, batchVars, pagedVars, srvVars>>

\* One iteration of "for analysis in analyses": delete_analysis.
DeleteAnalysis ==
    /\ o_pc = "delete"
    /\ \/ \* the record has no 'analysisId', or the DELETE request fails
          /\ \E sent \in BOOLEAN :
                requests' = IF sent
                    THEN Append(requests,
                                Request("DELETE", "DELETE_ANALYSIS", FALSE))
                    ELSE requests
          /\ o_pc' = "raised"
          /\ o_error' = APIError
          /\ UNCHANGED <<analysis_idx, srv_analyses>>
       \/ /\ requests' = Append(requests,
                                Request("DELETE", "DELETE_ANALYSIS", TRUE))
          /\ srv_analyses' = srv_analyses \ {analyses[analysis_idx]}
          /\ analysis_idx' = analysis_idx + 1
          /\ o_pc' = IF analysis_idx = Len(analyses) THEN "submit"
                                                      ELSE "delete"
          /\ UNCHANGED o_error
    /\ UNCHANGED <<op, o_result, edm_names, edm_idx, exposure_id, analyses,
                   srv_edms, srv_exposure_sets, outsideEdm,
                   pollVars, batchVars, pagedVars, srvVars>>

\* submit_delete_edm_job(exposure_id), then the entry into
\* poll_risk_data_job_to_completion(delete_edm_job_id).
SubmitDeleteEdmJob ==
    /\ o_pc = "submit"
    /\ IF ValidatePositiveIntRaises(exposure_id)
          THEN /\ o_pc' = "raised"
               /\ o_error' = ValidationError
               /\ UNCHANGED <<requests, pollVars>>
          ELSE
          \/ \* the request fails, or its Location header is unusable
             /\ \E accepted \in BOOLEAN :
                   requests' = Append(requests,
                                Request("DELETE", "DELETE_EDM", accepted))
             /\ o_pc' = "raised"
             /\ o_error' = APIError
             /\ UNCHANGED pollVars
          \/ /\ requests' = Append(requests,
                                   Request("DELETE", "DELETE_EDM", TRUE))
             /\ o_pc' = "polling"
             /\ EnterPollLoop("JobManager.poll_risk_data_job_to_completion",
                              POLL_RISK_DATA_JOB_INTERVAL,
                              POLL_RISK_DATA_JOB_TIMEOUT)
             /\ UNCHANGED o_error
    /\ UNCHANGED <<op, o_result, edmVars, outsideEdm, batchVars,
                   pagedVars, srvVars>>

\* return self.risk_data_job_manager.poll_risk_data_job_to_completion(...):
\* the call ends as the poll ends.
DeleteEdmNext ==
    DeleteEdmLookup \/ DeleteAnalysis \/ SubmitDeleteEdmJob
        \/ PollFetch \/ PollCheck

DeleteEdmSpec == DeleteEdmInit /\ [][DeleteEdmNext]_vars

(***************************************************************************)
(* The operations that create an EDM: EDMManager.submit_create_edm_job,    *)
(* submit_create_edm_jobs and submit_edm_import_job.                       *)
(***************************************************************************)
EdmCreatingOps ==
    { "EDMManager.submit_create_edm_job",
      "EDMManager.submit_create_edm_jobs",
      "EDMManager.submit_edm_import_job" }

MaxEdms == 2

EdmNameLists == UNION { [1..n -> EdmNames] : n \in 0..MaxEdms }

FileError == [kind |-> "IRPFileError", last_status |-> None]

\* The requests of submit_create_edm_job(edm_name), in the order the code
\* issues them when none fails.
CreateEdmRequests(edm_name) ==
    << Request("GET", "SEARCH_DATABASE_SERVERS", TRUE),
       Request("GET", "SEARCH_EXPOSURE_SETS", TRUE) >>
    \o (IF edm_name \in srv_exposure_sets THEN <<>>
        ELSE << Request("POST", "CREATE_EXPOSURE_SET", TRUE) >>)
    \o << Request("POST", "CREATE_EDM", TRUE) >>

\* The requests of submit_edm_import_job(edm_name, ...), likewise.
ImportEdmRequests(edm_name) ==
    << Request("GET", "SEARCH_DATABASE_SERVERS", TRUE),
       Request("POST", "CREATE_IMPORT_FOLDER", TRUE),
       Request("UPLOAD", "S3", TRUE),
       Request("GET", "SEARCH_EXPOSURE_SETS", TRUE) >>
    \o (IF edm_name \in srv_exposure_sets THEN <<>>
        ELSE << Request("POST", "CREATE_EXPOSURE_SET", TRUE) >>)
    \o << Request("POST", "SUBMIT_IMPORT_JOB", TRUE) >>

\* The first k requests of a plan, the last of which failed or not.
Prefix(plan, k, last_ok) ==
    [i \in 1..k |-> IF i = k THEN [plan[i] EXCEPT !.ok = last_ok]
                             ELSE plan[i]]

\* A request that succeeded and whose response the code then rejects: no
\* single database server, a record or response without the expected key,
\* an unusable Location header.
CanRejectResponse(r, edm_name) ==
    \/ r.path \in {"SEARCH_DATABASE_SERVERS", "CREATE_EXPOSURE_SET",
                   "CREATE_EDM", "CREATE_IMPORT_FOLDER", "SUBMIT_IMPORT_JOB"}
    \/ r.path = "SEARCH_EXPOSURE_SETS" /\ edm_name \in srv_exposure_sets

\* The exception a call raises when it stops at request r.
ErrorAfter(r) ==
    IF r.path = "SEARCH_DATABASE_SERVERS" /\ r.ok THEN ReferenceDataError
    ELSE IF r.path = "S3" THEN FileError
    ELSE APIError

ExposureSetsAfter(log, edm_name) ==
    IF \E i \in DOMAIN log : log[i].path = "CREATE_EXPOSURE_SET" /\ log[i].ok
        THEN srv_exposure_sets \cup {edm_name}
        ELSE srv_exposure_sets

\* The job id the platform gives the job submitted for edm_names[i].
EdmJobId(i) == 40 + i

CreateEdmInit ==
    /\ op \in EdmCreatingOps
    /\ o_pc = IF op = "EDMManager.submit_create_edm_jobs" THEN "unique"
                                                           ELSE "create"
    /\ requests = <<>>
    /\ o_result = <<>>
    /\ o_error = NoError
    /\ edm_names \in EdmNameLists
    /\ op # "EDMManager.submit_create_edm_jobs" => Len(edm_names) = 1
    /\ edm_idx = 1
    /\ exposure_id = 0
    /\ analyses = <<>>
    /\ analysis_idx = 0
    /\ srv_edms \in SUBSET EdmNames
    /\ srv_exposure_sets \in SUBSET EdmNames
    /\ srv_edms \subseteq srv_exposure_sets
    /\ srv_analyses = {}
    /\ ExecIdle
    /\ TagIdle
    /\ AnalysisIdle
    /\ ManagersIdle
    /\ PollIdle
    /\ BatchIdle
    /\ PagedIdle
    /\ SrvIdle

\* The names validate_unique_edms reads from the response of its search:
\* those of the EDMs on the platform whose name is in the IN list.
existing_namesMutant(names) == {names[i] : i \in DOMAIN names}

existing_names(names) == {names[i] : i \in DOMAIN names} \cap srv_edms

\* "The following EDMs already exist: ...; please use unique names"
EdmsExistError(names) ==
    [kind |-> "IRPAPIError", last_status |-> None, names |-> names]

\* submit_create_edm_jobs up to its for loop: validate_list_not_empty and
\* validate_unique_edms.
ValidateUniqueEdms ==
    /\ o_pc = "unique"
    /\ IF ValidateListNotEmptyRaises(edm_names)
          THEN /\ o_pc' = "raised"
               /\ o_error' = ValidationError
               /\ UNCHANGED requests
          ELSE
          \/ \* search_edms fails
             /\ requests' = Append(requests,
                                   Request("GET", "SEARCH_EDMS", FALSE))
             /\ o_pc' = "raised"
             /\ o_error' = APIError
          \/ /\ requests' = Append(requests,
                                   Request("GET", "SEARCH_EDMS", TRUE))
             /\ IF existing_names(edm_names) # {}
                   THEN /\ o_pc' = "raised"
                        /\ o_error' = EdmsExistError(existing_names(edm_names))
                   ELSE o_pc' = "create" /\ UNCHANGED o_error
    /\ UNCHANGED <<op, o_result, edmVars, outsideEdm, pollVars,
                   batchVars, pagedVars, srvVars>>

\* One call of submit_create_edm_job or submit_edm_import_job for
\* edm_names[edm_idx].
SubmitEdmJob ==
    /\ o_pc = "create"
    /\ LET edm_name == edm_names[edm_idx]
           plan == IF op = "EDMManager.submit_edm_import_job"
                      THEN ImportEdmRequests(edm_name)
                      ELSE CreateEdmRequests(edm_name)
       IN
       \/ \* validate_non_empty_string / validate_file_exists raises
          /\ \/ ValidateNonEmptyStringRaises(edm_name)
             \/ op = "EDMManager.submit_edm_import_job"
          /\ o_pc' = "raised"
          /\ o_error' = ValidationError
          /\ UNCHANGED <<requests, o_result, edm_idx, srv_exposure_sets>>
       \/ \* the call stops at the k-th request
          /\ ~ValidateNonEmptyStringRaises(edm_name)
          /\ \E k \in 1..Len(plan), last_ok \in BOOLEAN :
                /\ last_ok => CanRejectResponse(plan[k], edm_name)
                /\ requests' = requests \o Prefix(plan, k, last_ok)
                /\ srv_exposure_sets' =
                      ExposureSetsAfter(Prefix(plan, k, last_ok), edm_name)
                /\ o_error' = ErrorAfter(Prefix(plan, k, last_ok)[k])
          /\ o_pc' = "raised"
          /\ UNCHANGED <<o_result, edm_idx>>
       \/ \* every request succeeds: the job is submitted
          /\ ~ValidateNonEmptyStringRaises(edm_name)
          /\ requests' = requests \o plan
          /\ srv_exposure_sets' = srv_exposure_sets \cup {edm_name}
          /\ o_result' = Append(o_result, EdmJobId(edm_idx))
          /\ edm_idx' = edm_idx + 1
          /\ o_pc' = IF edm_idx < Len(edm_names) THEN "create"
                                                  ELSE "returned"
          /\ UNCHANGED o_error
    /\ UNCHANGED <<op, edm_names, exposure_id, analyses, analysis_idx,
                   srv_edms, srv_analyses, outsideEdm, pollVars,
                   batchVars, pagedVars, srvVars>>

CreateEdmNext == ValidateUniqueEdms \/ SubmitEdmJob

CreateEdmSpec == CreateEdmInit /\ [][CreateEdmNext]_vars

(***************************************************************************)
(* AnalysisManager.submit_portfolio_analysis_job: a chain of lookups, then *)
(* the job-creation request.                                               *)
(***************************************************************************)
\* The arguments that decide the path of the call.  job_name stands for
\* the five validated strings; currency is None or a dict the caller gives.
AnalysisArgs ==
    [ job_name : {"", "J1"},
      skip_duplicate_check : BOOLEAN,
      treaty_names : {<<>>, <<"T1">>},
      event_rate_scheme_name : {"", "ERS1"},
      currency : {None, "USD"} ]

\* Values of model_profile['softwareVersionCode'], letter by letter.
SoftwareVersionCodes ==
    { <<"R", "L", "2", "3", "H", "D">>, <<"R", "L", "2", "3">>,
      <<"H", "D", "2", "3">>, <<"D", "H">>, <<"H">>, <<>> }

\* "HD" in model_profile['softwareVersionCode']
ContainsHDMutant(code) ==
    Len(code) >= 2 /\ code[1] = "H" /\ code[2] = "D"

ContainsHD(code) ==
    \E i \in 1..(Len(code) - 1) : code[i] = "H" /\ code[i + 1] = "D"

\* The event rate scheme responses: count and the ids of the items.
SchemeResponses ==
    { [count |-> 0, items |-> <<>>],
      [count |-> 1, items |-> <<11>>],
      [count |-> 1, items |-> <<>>],
      [count |-> 2, items |-> <<11, 12>>] }

\* The steps of the call in the order of the code.
AnalysisStepsMutant ==
    << "duplicate", "edm", "portfolio", "treaties", "profiles", "tags",
       "scheme", "currency", "submit" >>

AnalysisSteps ==
    << "duplicate", "edm", "portfolio", "treaties", "profiles", "scheme",
       "tags", "currency", "submit" >>

StepAfter(step) ==
    LET i == CHOOSE k \in DOMAIN AnalysisSteps : AnalysisSteps[k] = step
    IN  AnalysisSteps[i + 1]

\* The keys of settings that are always present.
BaseSettings ==
    { "name", "modelProfileId", "outputProfileId", "treatyIds", "tagIds",
      "currency", "franchiseDeductible", "minLossThreshold",
      "treatConstructionOccupancyAsUnknown", "numMaxLossEvent" }

\* A step made of one GET request: the request fails or it succeeds and
\* its response is rejected (the call raises err), or the step passes.
LookupRejected(path, err) ==
    /\ \E succeeded \in BOOLEAN :
          requests' = Append(requests, Request("GET", path, succeeded))
    /\ o_pc' = "raised"
    /\ o_error' = err

LookupPassed(path, step) ==
    /\ requests' = Append(requests, Request("GET", path, TRUE))
    /\ o_pc' = StepAfter(step)
    /\ UNCHANGED o_error

StepSkipped(step) ==
    /\ o_pc' = StepAfter(step)
    /\ UNCHANGED <<requests, o_error>>

SubmitAnalysisInit ==
    /\ op = "AnalysisManager.submit_portfolio_analysis_job"
    /\ o_pc = "validate"
    /\ requests = <<>>
    /\ o_result = <<>>
    /\ o_error = NoError
    /\ args \in AnalysisArgs
    /\ software_version_code = <<>>
    /\ job_type = None
    /\ event_rate_scheme_response = NoSchemes
    /\ event_rate_scheme_id = NoneInt
    /\ data = NoData
    /\ tag_names \in TagNameLists
    /\ tag_idx = 0
    /\ tag_ids = <<>>
    /\ srv_tags \in SUBSET (TagNames \ {""})
    /\ ExecIdle
    /\ EdmIdle
    /\ ManagersIdle
    /\ PollIdle
    /\ BatchIdle
    /\ PagedIdle
    /\ SrvIdle

\* What no step of the call changes.
analysisFrame == <<op, args, outsideAnalysis, tag_names, tag_idx, pollVars,
                   batchVars, pagedVars, srvVars>>

\* validate_non_empty_string on the five names.
SubmitAnalysisValidate ==
    /\ o_pc = "validate"
    /\ IF ValidateNonEmptyStringRaises(args.job_name)
          THEN o_pc' = "raised" /\ o_error' = ValidationError
          ELSE o_pc' = AnalysisSteps[1] /\ UNCHANGED o_error
    /\ UNCHANGED <<requests, o_result, software_version_code, job_type,
                   event_rate_scheme_response, event_rate_scheme_id, data,
                   tag_ids, srv_tags, analysisFrame>>

\* The steps that are one search whose result is accepted or not: the
\* duplicate-name check, the EDM, portfolio and treaty lookups.
SearchStep ==
    /\ \E step \in {"duplicate", "edm", "portfolio", "treaties"} :
        /\ o_pc = step
        /\ LET path == CASE step = "duplicate" -> "SEARCH_ANALYSIS_RESULTS"
                         [] step = "edm" -> "SEARCH_EDMS"
                         [] step = "portfolio" -> "SEARCH_PORTFOLIOS"
                         [] step = "treaties" -> "SEARCH_TREATIES"
               skipped == \/ step = "duplicate" /\ args.skip_duplicate_check
                          \/ step = "treaties" /\ args.treaty_names = <<>>
           IN  IF skipped THEN StepSkipped(step)
               ELSE \/ LookupRejected(path, APIError)
                    \/ LookupPassed(path, step)
    /\ UNCHANGED <<o_result, software_version_code, job_type,
                   event_rate_scheme_response, event_rate_scheme_id, data,
                   tag_ids, srv_tags, analysisFrame>>

\* get_model_profile_by_name, then get_output_profile_by_name, then the
\* checks of both responses and the job type.
LookupProfiles ==
    /\ o_pc = "profiles"
    /\ \/ /\ requests' = Append(requests,
                            Request("GET", "GET_MODEL_PROFILES", FALSE))
          /\ o_pc' = "raised"
          /\ o_error' = APIError
          /\ UNCHANGED <<software_version_code, job_type>>
       \/ /\ requests' = requests \o
                << Request("GET", "GET_MODEL_PROFILES", TRUE),
                   Request("GET", "GET_OUTPUT_PROFILES", FALSE) >>
          /\ o_pc' = "raised"
          /\ o_error' = APIError
          /\ UNCHANGED <<software_version_code, job_type>>
       \/ /\ requests' = requests \o
                << Request("GET", "GET_MODEL_PROFILES", TRUE),
                   Request("GET", "GET_OUTPUT_PROFILES", TRUE) >>
          /\ \/ \* no model profile, no output profile, or a profile
                \* without 'id' or 'softwareVersionCode'
                /\ o_pc' = "raised"
                /\ o_error' = ReferenceDataError
                /\ UNCHANGED <<software_version_code, job_type>>
             \/ \E code \in SoftwareVersionCodes :
                /\ software_version_code' = code
                /\ job_type' = IF ContainsHD(code) THEN "HD" ELSE "DLM"
                /\ o_pc' = StepAfter("profiles")
                /\ UNCHANGED o_error
    /\ UNCHANGED <<o_result, event_rate_scheme_response,
                   event_rate_scheme_id, data, tag_ids, srv_tags,
                   analysisFrame>>

\* The event rate scheme: looked up when a name is given, required for DLM.
LookupEventRateScheme ==
    /\ o_pc = "scheme"
    /\ IF args.event_rate_scheme_name # ""
          THEN \/ /\ requests' = Append(requests,
                          Request("GET", "GET_EVENT_RATE_SCHEME", FALSE))
                  /\ o_pc' = "raised"
                  /\ o_error' = APIError
                  /\ UNCHANGED <<event_rate_scheme_response,
                                 event_rate_scheme_id>>
               \/ \E resp \in SchemeResponses :
                  /\ requests' = Append(requests,
                          Request("GET", "GET_EVENT_RATE_SCHEME", TRUE))
                  /\ event_rate_scheme_response' = resp
                  /\ IF resp.count = 0 \/ Len(resp.items) = 0
                        THEN /\ o_pc' = "raised"
                             /\ o_error' = ReferenceDataError
                             /\ UNCHANGED event_rate_scheme_id
                        ELSE /\ event_rate_scheme_id' = resp.items[1]
                             /\ o_pc' = StepAfter("scheme")
                             /\ UNCHANGED o_error
          ELSE /\ IF job_type = "DLM"
                     THEN o_pc' = "raised" /\ o_error' = ReferenceDataError
                     ELSE o_pc' = StepAfter("scheme") /\ UNCHANGED o_error
               /\ UNCHANGED <<requests, event_rate_scheme_response,
                              event_rate_scheme_id>>
    /\ UNCHANGED <<o_result, software_version_code, job_type, data, tag_ids,
                   srv_tags, analysisFrame>>

\* The runs of the loop of get_tag_ids_from_tag_names over names when the
\* platform knows the tags in known: the requests of the run, the tags it
\* created and the error that ended it, if any.
RECURSIVE TagRuns(_, _)
TagRuns(names, known) ==
    IF names = <<>>
       THEN { [log |-> <<>>, created |-> {}, error |-> NoError] }
    ELSE LET tag_name == Head(names)
             get(b) == Request("GET", "GET_TAGS", b)
             post(b) == Request("POST", "CREATE_TAG", b)
             stop(l, c, e) == [log |-> l, created |-> c, error |-> e]
             after(l, c) ==
                { stop(l \o run.log, c \cup run.created, run.error) :
                    run \in TagRuns(Tail(names), known \cup c) }
         IN  IF ValidateNonEmptyStringRaises(tag_name)
                THEN { stop(<<>>, {}, ValidationError) }
             ELSE { stop(<<get(b)>>, {}, APIError) : b \in BOOLEAN }
                  \cup
                  ( IF tag_name \in known
                       THEN after(<<get(TRUE)>>, {})
                       ELSE { stop(<<get(TRUE), post(FALSE)>>, {},
                                   APIError),
                              stop(<<get(TRUE), post(TRUE)>>, {tag_name},
                                   APIError) }
                            \cup after(<<get(TRUE), post(TRUE)>>,
                                       {tag_name}) )

\* get_tag_ids_from_tag_names(tag_names), IRPAPIError re-raised as such.
ResolveTags ==
    /\ o_pc = "tags"
    /\ IF ValidateListNotEmptyRaises(tag_names)
          THEN /\ o_pc' = "raised"
               /\ o_error' = ValidationError
               /\ UNCHANGED <<requests, tag_ids, srv_tags>>
          ELSE \E run \in TagRuns(tag_names, srv_tags) :
               /\ requests' = requests \o run.log
               /\ srv_tags' = srv_tags \cup run.created
               /\ IF run.error = NoError
                     THEN /\ tag_ids' = [i \in DOMAIN tag_names |->
                                            TagId(tag_names[i])]
                          /\ o_pc' = StepAfter("tags")
                          /\ UNCHANGED o_error
                     ELSE /\ o_pc' = "raised"
                          /\ o_error' = run.error
                          /\ UNCHANGED tag_ids
    /\ UNCHANGED <<o_result, software_version_code, job_type,
                   event_rate_scheme_response, event_rate_scheme_id, data,
                   op, args, outsideAnalysis, tag_names, tag_idx, pollVars,
                   batchVars, pagedVars, srvVars>>

\* An exception that is none of the package's own.
KeyError == [kind |-> "KeyError", last_status |-> None]

\* currency = get_analysis_currency() when the caller gave none: an
\* IRPAPIError of the lookup is caught there and the default dict used.
LookupCurrency ==
    /\ o_pc = "currency"
    /\ IF args.currency = None
          THEN \/ \* the request fails, or no vintage comes back: defaults
                  /\ \E succeeded \in BOOLEAN :
                        requests' = Append(requests,
                            Request("GET", "SEARCH_CURRENCY_SCHEME_VINTAGES",
                                    succeeded))
                  /\ o_pc' = StepAfter("currency")
                  /\ UNCHANGED o_error
               \/ \* the latest vintage lacks a key of the currency dict
                  /\ requests' = Append(requests,
                        Request("GET", "SEARCH_CURRENCY_SCHEME_VINTAGES",
                                TRUE))
                  /\ o_pc' = "raised"
                  /\ o_error' = KeyError
          ELSE StepSkipped("currency")
    /\ UNCHANGED <<o_result, software_version_code, job_type,
                   event_rate_scheme_response, event_rate_scheme_id, data,
                   tag_ids, srv_tags, analysisFrame>>

\* The job id extract_id_from_location_header reads from the response.
AnalysisJobId == 501

\* settings and data, then POST CREATE_ANALYSIS_JOB.
CreateAnalysisJob ==
    /\ o_pc = "submit"
    /\ data' = [ type |-> job_type,
                 settings |-> IF event_rate_scheme_id # NoneInt
                                 THEN BaseSettings \cup {"eventRateSchemeId"}
                                 ELSE BaseSettings,
                 eventRateSchemeId |-> event_rate_scheme_id ]
    /\ \/ \* the request fails, or its Location header is unusable
          /\ \E succeeded \in BOOLEAN :
                requests' = Append(requests,
                    Request("POST", "CREATE_ANALYSIS_JOB", succeeded))
          /\ o_pc' = "raised"
          /\ o_error' = APIError
          /\ UNCHANGED o_result
       \/ /\ requests' = Append(requests,
                Request("POST", "CREATE_ANALYSIS_JOB", TRUE))
          /\ o_pc' = "returned"
          /\ o_result' = <<AnalysisJobId>>
          /\ UNCHANGED o_error
    /\ UNCHANGED <<software_version_code, job_type,
                   event_rate_scheme_response, event_rate_scheme_id, tag_ids,
                   srv_tags, analysisFrame>>

SubmitAnalysisNext ==
    \/ SubmitAnalysisValidate
    \/ SearchStep
    \/ LookupProfiles
    \/ LookupEventRateScheme
    \/ ResolveTags
    \/ LookupCurrency
    \/ CreateAnalysisJob

SubmitAnalysisSpec == SubmitAnalysisInit /\ [][SubmitAnalysisNext]_vars

(***************************************************************************)
(* AnalysisManager.submit_analysis_grouping_job: resolve the member names, *)
(* skip or refuse the missing ones, then create the group.                 *)
(***************************************************************************)
MaxNames == 3

MemberNames == {"A1", "A2", "A3"}

MemberNameLists == UNION { [1..n -> MemberNames] : n \in 0..MaxNames }

\* The arguments that decide the path of the call; the other settings are
\* copied into the request body as they are.
GroupingArgs ==
    [ group_name : {"", "G1"},
      skip_missing : BOOLEAN,
      currency : {None, "USD"},
      region_peril_simulation_set : {None, <<>>, <<"entry">>},
      simulate_to_plt : BOOLEAN ]

\* analysis_response[0]['uri'] of the analysis or group of a name.
Uri(name) == <<"uri", name>>

GroupJobId == 601

NoGroupResult ==
    [ job_id |-> NoneInt, skipped |-> FALSE, skipped_items |-> <<>>,
      included_items |-> <<>> ]

NoGroupData ==
    [ resourceUris |-> <<>>, simulateToPLT |-> FALSE,
      regionPerilSimulationSet |-> <<>> ]

GroupingInit ==
    /\ op = "AnalysisManager.submit_analysis_grouping_job"
    /\ o_pc = "validate"
    /\ requests = <<>>
    /\ o_result = NoGroupResult
    /\ o_error = NoError
    /\ args \in GroupingArgs
    /\ data = NoGroupData
    /\ analysis_names \in MemberNameLists
    /\ name_idx = 0
    /\ skipped_items = <<>>
    /\ included_items = <<>>
    /\ analysis_uris = <<>>
    /\ srv_matches \in [MemberNames -> {0, 1, 2}]
    /\ software_version_code = <<>>
    /\ job_type = None
    /\ event_rate_scheme_response = NoSchemes
    /\ event_rate_scheme_id = NoneInt
    /\ LookupIdle
    /\ BuildIdle
    /\ ServiceIdle
    /\ ExecIdle
    /\ TagIdle
    /\ EdmIdle
    /\ PollIdle
    /\ BatchIdle
    /\ PagedIdle
    /\ SrvIdle

\* What no step of the call changes.
groupingFrame == <<op, args, analysis_names, srv_matches, outsideGrouping,
                   pollVars, batchVars, pagedVars, srvVars>>

\* validate_non_empty_string(group_name), validate_list_not_empty(
\* analysis_names).
GroupingValidate ==
    /\ o_pc = "validate"
    /\ IF \/ ValidateNonEmptyStringRaises(args.group_name)
          \/ ValidateListNotEmptyRaises(analysis_names)
          THEN o_pc' = "raised" /\ o_error' = ValidationError
          ELSE o_pc' = "exists" /\ UNCHANGED o_error
    /\ UNCHANGED <<requests, o_result, data, name_idx, skipped_items,
                   included_items, analysis_uris, groupingFrame>>

\* The search for an analysis group that already has the name.
GroupingCheckName ==
    /\ o_pc = "exists"
    /\ \/ \* the request fails, or it finds a group of that name
          /\ \E succeeded \in BOOLEAN :
                requests' = Append(requests,
                    Request("GET", "SEARCH_ANALYSIS_RESULTS", succeeded))
          /\ o_pc' = "raised"
          /\ o_error' = APIError
          /\ UNCHANGED name_idx
       \/ /\ requests' = Append(requests,
                Request("GET", "SEARCH_ANALYSIS_RESULTS", TRUE))
          /\ o_pc' = "resolve"
          /\ name_idx' = 1
          /\ UNCHANGED o_error
    /\ UNCHANGED <<o_result, data, skipped_items, included_items,
                   analysis_uris, groupingFrame>>

\* One iteration of the for loop.  Its three branches (group name, analysis
\* name with an EDM, analysis name alone) differ in the filter only.
GroupingResolve ==
    /\ o_pc = "resolve"
    /\ LET name == analysis_names[name_idx]
           n_found == srv_matches[name]
           advance == /\ name_idx' = name_idx + 1
                      /\ o_pc' = IF name_idx = Len(analysis_names)
                                    THEN "decide" ELSE "resolve"
                      /\ UNCHANGED o_error
           raise == /\ o_pc' = "raised"
                    /\ o_error' = APIError
                    /\ UNCHANGED <<name_idx, skipped_items, included_items,
                                   analysis_uris>>
       IN  \/ /\ requests' = Append(requests,
                    Request("GET", "SEARCH_ANALYSIS_RESULTS", FALSE))
              /\ raise
           \/ /\ requests' = Append(requests,
                    Request("GET", "SEARCH_ANALYSIS_RESULTS", TRUE))
              /\ IF n_found = 0
                    THEN IF args.skip_missing
                            THEN /\ skipped_items' =
                                       Append(skipped_items, name)
                                 /\ advance
                                 /\ UNCHANGED <<included_items,
                                                analysis_uris>>
                            ELSE raise
                 ELSE IF n_found > 1 THEN raise
                 ELSE \/ \* the record found has no 'uri' or 'analysisId'
                         raise
                      \/ /\ analysis_uris' =
                               Append(analysis_uris, Uri(name))
                         /\ included_items' = Append(included_items, name)
                         /\ advance
                         /\ UNCHANGED skipped_items
    /\ UNCHANGED <<o_result, data, groupingFrame>>

\* if not analysis_uris
NothingResolvedMutant == skipped_items # <<>>

NothingResolved == analysis_uris = <<>>

\* After the loop: nothing resolved, so the skip result is returned.
GroupingDecide ==
    /\ o_pc = "decide"
    /\ IF NothingResolved
          THEN /\ o_pc' = "returned"
               /\ o_result' = [ job_id |-> NoneInt, skipped |-> TRUE,
                                skipped_items |-> skipped_items,
                                included_items |-> <<>> ]
          ELSE /\ o_pc' = "currency"
               /\ UNCHANGED o_result
    /\ UNCHANGED <<requests, o_error, data, name_idx, skipped_items,
                   included_items, analysis_uris, groupingFrame>>

\* currency = get_analysis_currency() when the caller gave none.
GroupingCurrency ==
    /\ o_pc = "currency"
    /\ IF args.currency = None
          THEN \/ /\ \E succeeded \in BOOLEAN :
                        requests' = Append(requests,
                            Request("GET", "SEARCH_CURRENCY_SCHEME_VINTAGES",
                                    succeeded))
                  /\ o_pc' = "submit"
                  /\ UNCHANGED o_error
               \/ /\ requests' = Append(requests,
                        Request("GET", "SEARCH_CURRENCY_SCHEME_VINTAGES",
                                TRUE))
                  /\ o_pc' = "raised"
                  /\ o_error' = KeyError
          ELSE /\ o_pc' = "submit"
               /\ UNCHANGED <<requests, o_error>>
    /\ UNCHANGED <<o_result, data, name_idx, skipped_items, included_items,
                   analysis_uris, groupingFrame>>

\* The region/peril simulation set (built from the analysis ids when the
\* caller gave none; the builder only reads, starting with one search per
\* id), the request body and POST CREATE_ANALYSIS_GROUP.
GroupingSubmit ==
    /\ o_pc = "submit"
    /\ LET built == [i \in DOMAIN analysis_uris |->
                        Request("GET", "SEARCH_ANALYSIS_RESULTS", TRUE)]
           log == IF args.region_peril_simulation_set = None
                     THEN requests \o built ELSE requests
       IN  \/ \* the builder raises
              /\ args.region_peril_simulation_set = None
              /\ requests' = log
              /\ o_pc' = "raised"
              /\ o_error' = ValidationError
              /\ UNCHANGED <<data, o_result>>
           \/ \E region_peril_simulation_set \in {<<>>, <<"entry">>} :
              /\ args.region_peril_simulation_set # None =>
                    region_peril_simulation_set =
                        args.region_peril_simulation_set
              /\ data' = [ resourceUris |-> analysis_uris,
                           simulateToPLT |->
                              IF Len(region_peril_simulation_set) > 0
                                 THEN TRUE ELSE args.simulate_to_plt,
                           regionPerilSimulationSet |->
                              region_peril_simulation_set ]
              /\ \/ \* the request fails, or its Location header is unusable
                    /\ \E succeeded \in BOOLEAN :
                          requests' = Append(log,
                              Request("POST", "CREATE_ANALYSIS_GROUP",
                                      succeeded))
                    /\ o_pc' = "raised"
                    /\ o_error' = APIError
                    /\ UNCHANGED o_result
                 \/ /\ requests' = Append(log,
                          Request("POST", "CREATE_ANALYSIS_GROUP", TRUE))
                    /\ o_pc' = "returned"
                    /\ o_result' = [ job_id |-> GroupJobId,
                                     skipped |-> FALSE,
                                     skipped_items |-> skipped_items,
                                     included_items |-> included_items ]
                    /\ UNCHANGED o_error
    /\ UNCHANGED <<name_idx, skipped_items, included_items, analysis_uris,
                   groupingFrame>>

GroupingNext ==
    \/ GroupingValidate
    \/ GroupingCheckName
    \/ GroupingResolve
    \/ GroupingDecide
    \/ GroupingCurrency
    \/ GroupingSubmit

GroupingSpec == GroupingInit /\ [][GroupingNext]_vars

(***************************************************************************)
(* The lookups by name that go on with one record of a search result, each *)
(* with the check its code makes on the number of records found.           *)
(***************************************************************************)
MaxMatches == 2

RecordIds == 1..3

\* What a search can return: up to MaxMatches records with distinct ids, in
\* any order.
SearchResults ==
    { ids \in UNION { [1..n -> RecordIds] : n \in 0..MaxMatches } :
        \A i, j \in DOMAIN ids : i # j => ids[i] # ids[j] }

Lookups ==
    { "RDMManager.submit_rdm_export_job.database_servers",
      "RDMManager.submit_rdm_import_job.edms",
      "ReferenceDataManager.get_currency_by_name",
      "AnalysisManager.submit_portfolio_analysis_job.model_profile",
      "AnalysisManager.submit_portfolio_analysis_job.output_profile",
      "ReferenceDataManager.get_simulation_set_by_region_peril_and_engine" }

\* max(matching_sets, key=lambda x: x.get('id', 0))
MaxId(ids) ==
    CHOOSE m \in { ids[i] : i \in DOMAIN ids } :
        \A i \in DOMAIN ids : ids[i] <= m

LookupInit ==
    /\ op \in Lookups
    /\ o_pc = "search"
    /\ requests = <<>>
    /\ o_result = NoneInt
    /\ o_error = NoError
    /\ found \in SearchResults
    /\ ExecIdle
    /\ TagIdle
    /\ EdmIdle
    /\ AnalysisIdle
    /\ GroupingIdle
    /\ BuildIdle
    /\ ServiceIdle
    /\ PollIdle
    /\ BatchIdle
    /\ PagedIdle
    /\ SrvIdle

lookupFrame == <<op, found, outsideLookup, pollVars, batchVars, pagedVars,
                 srvVars>>

\* The search request of a lookup fails: IRPAPIError.
SearchFails(path) ==
    /\ requests' = Append(requests, Request("GET", path, FALSE))
    /\ o_pc' = "raised"
    /\ o_error' = APIError
    /\ UNCHANGED o_result

\* The search answers and the code goes on with the record of id picked,
\* or raises err when refused.
SearchAnswers(path, refused, err, picked) ==
    /\ requests' = Append(requests, Request("GET", path, TRUE))
    /\ IF refused
          THEN o_pc' = "raised" /\ o_error' = err /\ UNCHANGED o_result
          ELSE o_pc' = "proceeded" /\ o_result' = picked
                  /\ UNCHANGED o_error

\* submit_rdm_export_job: server_id = database_servers[0]['serverId'],
\* an IndexError becoming IRPAPIError.
LookupDatabaseServer ==
    /\ op = "RDMManager.submit_rdm_export_job.database_servers"
    /\ o_pc = "search"
    /\ \/ SearchFails("SEARCH_DATABASE_SERVERS")
       \/ SearchAnswers("SEARCH_DATABASE_SERVERS", Len(found) = 0, APIError,
                        found[1])
    /\ UNCHANGED lookupFrame

\* submit_rdm_import_job: if not edms: raise; resource_uri = edms[0]['uri'].
LookupImportEdm ==
    /\ op = "RDMManager.submit_rdm_import_job.edms"
    /\ o_pc = "search"
    /\ \/ SearchFails("SEARCH_EDMS")
       \/ SearchAnswers("SEARCH_EDMS", found = <<>>, APIError, found[1])
    /\ UNCHANGED lookupFrame

\* get_currency_by_name: currency = currencies_response['items'][0].
GetCurrencyByName ==
    /\ op = "ReferenceDataManager.get_currency_by_name"
    /\ o_pc = "search"
    /\ \/ SearchFails("SEARCH_CURRENCIES")
       \/ SearchAnswers("SEARCH_CURRENCIES", Len(found) = 0, APIError,
                        found[1])
    /\ UNCHANGED lookupFrame

\* submit_portfolio_analysis_job: count == 0 raises; items[0] is taken.
LookupModelProfile ==
    /\ op = "AnalysisManager.submit_portfolio_analysis_job.model_profile"
    /\ o_pc = "search"
    /\ \/ SearchFails("GET_MODEL_PROFILES")
       \/ SearchAnswers("GET_MODEL_PROFILES", Len(found) = 0,
                        ReferenceDataError, found[1])
    /\ UNCHANGED lookupFrame

\* submit_portfolio_analysis_job: len(...) == 0 raises; [0] is taken.
LookupOutputProfile ==
    /\ op = "AnalysisManager.submit_portfolio_analysis_job.output_profile"
    /\ o_pc = "search"
    /\ \/ SearchFails("GET_OUTPUT_PROFILES")
       \/ SearchAnswers("GET_OUTPUT_PROFILES", Len(found) = 0,
                        ReferenceDataError, found[1])
    /\ UNCHANGED lookupFrame

\* get_simulation_set_by_region_peril_and_engine: found holds the matching
\* sets; none raises, one is returned, of several the highest id.
GetSimulationSetByRegionPerilAndEngine ==
    /\ op = "ReferenceDataManager.get_simulation_set_by_region_peril_and_engine"
    /\ o_pc = "search"
    /\ \/ SearchFails("SEARCH_SIMULATION_SETS")
       \/ SearchAnswers("SEARCH_SIMULATION_SETS", found = <<>>, APIError,
                        IF Len(found) = 1 THEN found[1] ELSE MaxId(found))
    /\ UNCHANGED lookupFrame

LookupNext ==
    \/ LookupDatabaseServer
    \/ LookupImportEdm
    \/ GetCurrencyByName
    \/ LookupModelProfile
    \/ LookupOutputProfile
    \/ GetSimulationSetByRegionPerilAndEngine

LookupSpec == LookupInit /\ [][LookupNext]_vars

(***************************************************************************)
(* AnalysisManager.build_region_peril_simulation_set: collect the regions  *)
(* of the analyses, decide whether the set is needed, build one entry per  *)
(* region and merge the entries that differ in engine version only.        *)
(* Codes are sequences of characters, an engineVersion string is the       *)
(* sequence of its comma-separated tokens.                                 *)
(***************************************************************************)
MaxAnalyses == 2

MaxRegions == 1

WS == <<"W", "S">>

EQ == <<"E", "Q">>

NA == <<"N", "A">>

D1 == <<"D", "1">>

\* pet_metadata['modelRegionCode'] of the PET the platform knows.
PetModelRegionCode == <<"N", "A", "W", "F">>

PetId == 5

\* The regions get_regions returns: ELT regions with or without their own
\* rateSchemeId, PLT regions with or without a petId.
EltRegions ==
    [ framework : {"ELT"}, engineVersion : {<<"RL22">>, <<"RL23">>},
      subRegion : {D1}, petId : {0}, periods : {0},
      rateSchemeId : {NoneInt, 1} ]

PltRegions ==
    [ framework : {"PLT"}, engineVersion : {<<"HDv2.0">>},
      subRegion : {D1}, petId : {0, PetId}, periods : {100},
      rateSchemeId : {NoneInt} ]

RegionLists ==
    UNION { [1..n -> EltRegions \cup PltRegions] : n \in 0..MaxRegions }

\* What the platform answers for one analysis id: the search record, the
\* event rate scheme id of the detail record (NoneInt when it has none or
\* get_analysis_by_id fails) and the regions (none when get_regions fails).
AnalysisInfos ==
    [ perilCode : {WS, EQ}, regionCode : {NA},
      analysisFramework : {"ELT", "PLT"},
      eventRateSchemeId : {NoneInt, 1, 2},
      regions : RegionLists ]

\* Python's order on the version tokens, least first.
TokenOrder == <<"HDv2.0", "RL22", "RL23">>

TokenRank(token) ==
    CHOOSE i \in DOMAIN TokenOrder : TokenOrder[i] = token

\* s < t for two strings given by their tokens.
RECURSIVE LexLess(_, _)
LexLess(s, t) ==
    IF s = <<>> THEN t # <<>>
    ELSE IF t = <<>> THEN FALSE
    ELSE IF Head(s) = Head(t) THEN LexLess(Tail(s), Tail(t))
    ELSE TokenRank(Head(s)) < TokenRank(Head(t))

\* sorted(existing_versions, reverse=True)
RECURSIVE SortedVersionsMutant(_)
SortedVersionsMutant(strings) ==
    IF strings = {} THEN <<>>
    ELSE LET least == CHOOSE s \in strings :
                         \A t \in strings \ {s} : LexLess(s, t)
         IN  <<least>> \o SortedVersionsMutant(strings \ {least})

RECURSIVE SortedVersions(_)
SortedVersions(strings) ==
    IF strings = {} THEN <<>>
    ELSE LET greatest == CHOOSE s \in strings :
                            \A t \in strings \ {s} : LexLess(t, s)
         IN  <<greatest>> \o SortedVersions(strings \ {greatest})

\* engineVersion.split(",")
Split(string) == { <<string[i]>> : i \in DOMAIN string }

\* ",".join(sorted_versions)
RECURSIVE Join(_)
Join(strings) ==
    IF strings = <<>> THEN <<>> ELSE Head(strings) \o Join(Tail(strings))

\* engine_version.replace('HDv', '').replace('RL', '')
LiteralVersion(engine_version) ==
    [i \in DOMAIN engine_version |->
        CASE engine_version[i] = "RL22" -> "22"
          [] engine_version[i] = "RL23" -> "23"
          [] engine_version[i] = "HDv2.0" -> "2.0"]

\* The modelVersionCode the version map holds.
MappedVersion == <<"V1">>

\* pet_model_region_code[-2:] and pet_model_region_code[:-2]
LastTwo(code) ==
    IF Len(code) >= 2 THEN SubSeq(code, Len(code) - 1, Len(code)) ELSE <<>>

ButLastTwo(code) ==
    IF Len(code) >= 2 THEN SubSeq(code, 1, Len(code) - 2) ELSE <<>>

\* The simulation set the platform finds for an event rate scheme id, and
\* the one it finds for region, peril and engine version.
SimSetOfScheme(id) ==
    [id |-> 100 + id, eventRateSchemeId |-> id, defaultPeriods |-> 50]

SimSetOfRegion ==
    [id |-> 200, eventRateSchemeId |-> 9, defaultPeriods |-> 50]

\* The key of the merge: every field of an entry but engineVersion.
MergeKey(entry) ==
    << entry.eventRateSchemeId, entry.modelRegionCode, entry.modelVersion,
       entry.perilCode, entry.regionCode, entry.simulationPeriods,
       entry.simulationSetId >>

\* One iteration of the merge loop: merged_result after entry.
MergeOne(merged, entry) ==
    IF \E i \in DOMAIN merged : MergeKey(merged[i]) = MergeKey(entry)
       THEN LET i == CHOOSE k \in DOMAIN merged :
                        MergeKey(merged[k]) = MergeKey(entry)
                existing_versions ==
                    Split(merged[i].engineVersion) \cup {entry.engineVersion}
            IN  [merged EXCEPT ![i].engineVersion =
                                  Join(SortedVersions(existing_versions))]
       ELSE Append(merged, entry)

\* list(merged_result.values()) after the loop over entries.
RECURSIVE MergeEntries(_, _)
MergeEntries(merged, entries) ==
    IF entries = <<>> THEN merged
    ELSE MergeEntries(MergeOne(merged, Head(entries)), Tail(entries))

BuildInit ==
    /\ op = "AnalysisManager.build_region_peril_simulation_set"
    /\ o_pc = "validate"
    /\ requests = <<>>
    /\ o_result = <<>>
    /\ o_error = NoError
    /\ srv_infos \in UNION { [1..n -> AnalysisInfos] : n \in 0..MaxAnalyses }
    /\ id_idx = 0
    /\ all_regions = <<>>
    /\ has_plt = FALSE
    /\ event_rate_schemes_by_peril_region = {}
    /\ region_idx = 0
    /\ seen = {}
    /\ result = <<>>
    /\ lookups = <<>>
    /\ ExecIdle
    /\ TagIdle
    /\ EdmIdle
    /\ AnalysisIdle
    /\ GroupingIdle
    /\ LookupIdle
    /\ ServiceIdle
    /\ PollIdle
    /\ BatchIdle
    /\ PagedIdle
    /\ SrvIdle

buildFrame == <<op, requests, srv_infos, outsideBuild, pollVars, batchVars,
                pagedVars, srvVars>>

\* validate_list_not_empty(analysis_ids, "analysis_ids")
BuildValidate ==
    /\ o_pc = "validate"
    /\ IF ValidateListNotEmptyRaises(srv_infos)
          THEN o_pc' = "raised" /\ o_error' = ValidationError
                  /\ UNCHANGED id_idx
          ELSE o_pc' = "collect" /\ id_idx' = 1 /\ UNCHANGED o_error
    /\ UNCHANGED <<o_result, all_regions, has_plt,
                   event_rate_schemes_by_peril_region, region_idx, seen,
                   result, lookups, buildFrame>>

\* One iteration of the loop over analysis_ids.
CollectRegions ==
    /\ o_pc = "collect"
    /\ LET info == srv_infos[id_idx]
           enriched == [i \in DOMAIN info.regions |->
                           [ region |-> info.regions[i],
                             perilCode |-> info.perilCode,
                             regionCode |-> info.regionCode,
                             eventRateSchemeId |-> info.eventRateSchemeId ]]
       IN  \/ \* the search finds no record, or it fails: the id is skipped
              UNCHANGED <<all_regions, has_plt,
                          event_rate_schemes_by_peril_region>>
           \/ /\ has_plt' =
                    \/ has_plt
                    \/ info.analysisFramework = "PLT"
                    \/ \E i \in DOMAIN info.regions :
                          info.regions[i].framework = "PLT"
              /\ event_rate_schemes_by_peril_region' =
                    IF info.eventRateSchemeId # NoneInt
                       THEN event_rate_schemes_by_peril_region \cup
                              { [ key |-> <<info.perilCode, info.regionCode>>,
                                  id |-> info.eventRateSchemeId ] }
                       ELSE event_rate_schemes_by_peril_region
              /\ all_regions' = all_regions \o enriched
    /\ id_idx' = id_idx + 1
    /\ o_pc' = IF id_idx = Len(srv_infos) THEN "decide" ELSE "collect"
    /\ UNCHANGED <<o_result, o_error, region_idx, seen, result, lookups,
                   buildFrame>>

\* Some (perilCode, regionCode) has more than one event rate scheme id.
Ambiguous ==
    \E a, b \in event_rate_schemes_by_peril_region :
        a.key = b.key /\ a.id # b.id

\* needs_simulation_set
NeedsSimulationSet == has_plt \/ Ambiguous

\* The two early returns of an empty list.
DecideSimulationSet ==
    /\ o_pc = "decide"
    /\ IF all_regions = <<>> \/ ~NeedsSimulationSet
          THEN o_pc' = "returned" /\ o_result' = <<>>
                  /\ UNCHANGED region_idx
          ELSE o_pc' = "build" /\ region_idx' = 1 /\ UNCHANGED o_result
    /\ UNCHANGED <<o_error, id_idx, all_regions, has_plt,
                   event_rate_schemes_by_peril_region, seen, result, lookups,
                   buildFrame>>

\* After the region at region_idx: the next region or the merge.
NextRegion ==
    /\ region_idx' = region_idx + 1
    /\ o_pc' = IF region_idx = Len(all_regions) THEN "merge" ELSE "build"
    /\ UNCHANGED o_error

\* From the dedup check on: skip a key already seen, else resolve the
\* model version (version map by engine, region and peril, then by engine
\* alone, then the literal substitution) and append the entry.
AppendEntry(key, engine_version, scheme_id, model_region_code,
            peril_code, region_code, periods, simulation_set_id) ==
    IF key \in seen
       THEN UNCHANGED <<seen, result>>
       ELSE /\ seen' = seen \cup {key}
            /\ \E model_version \in
                    {MappedVersion, LiteralVersion(engine_version)} :
                  result' = Append(result,
                     [ engineVersion |-> engine_version,
                       eventRateSchemeId |-> scheme_id,
                       modelRegionCode |-> model_region_code,
                       modelVersion |-> model_version,
                       perilCode |-> peril_code,
                       regionCode |-> region_code,
                       simulationPeriods |-> periods,
                       simulationSetId |-> simulation_set_id ])

\* One iteration of the loop over all_regions for a PLT region.
BuildPltEntry ==
    /\ o_pc = "build"
    /\ all_regions[region_idx].region.framework = "PLT"
    /\ LET tagged == all_regions[region_idx]
           region == tagged.region
           pet_id == region.petId
           entry(peril_code, region_code) ==
              LET model_region_code == region.subRegion \o peril_code
              IN  AppendEntry(
                     [ engineVersion |-> region.engineVersion,
                       modelRegionCode |-> model_region_code,
                       perilCode |-> peril_code,
                       regionCode |-> region_code,
                       framework |-> "PLT", petId |-> pet_id ],
                     region.engineVersion, 0, model_region_code, peril_code,
                     region_code, region.periods, pet_id)
       IN  IF ValidatePositiveIntRaises(pet_id)
              THEN \* get_pet_metadata_by_id: IRPValidationError, not caught
                   /\ o_pc' = "raised"
                   /\ o_error' = ValidationError
                   /\ UNCHANGED <<region_idx, seen, result>>
              ELSE /\ \/ \* the PET metadata is found
                         entry(LastTwo(PetModelRegionCode),
                               ButLastTwo(PetModelRegionCode))
                      \/ \* IRPAPIError: the analysis-level codes
                         entry(tagged.perilCode, tagged.regionCode)
                   /\ NextRegion
    /\ UNCHANGED <<o_result, id_idx, all_regions, has_plt,
                   event_rate_schemes_by_peril_region, lookups, buildFrame>>

\* Which simulation set lookup the code makes for an ELT region.
SimSetLookup(tagged) ==
    IF tagged.region.rateSchemeId # NoneInt /\ tagged.region.rateSchemeId > 0
       THEN "rateSchemeId"
    ELSE IF tagged.eventRateSchemeId # NoneInt /\ tagged.eventRateSchemeId > 0
       THEN "eventRateSchemeId"
    ELSE "regionPerilEngine"

\* One iteration of the loop over all_regions for an ELT region.
BuildEltEntry ==
    /\ o_pc = "build"
    /\ all_regions[region_idx].region.framework # "PLT"
    /\ LET tagged == all_regions[region_idx]
           region == tagged.region
           peril_code == tagged.perilCode
           region_code == tagged.regionCode
           model_region_code == region.subRegion \o peril_code
           rate_scheme_id == region.rateSchemeId
           by == SimSetLookup(tagged)
           sim_set == CASE by = "rateSchemeId" ->
                               SimSetOfScheme(rate_scheme_id)
                        [] by = "eventRateSchemeId" ->
                               SimSetOfScheme(tagged.eventRateSchemeId)
                        [] by = "regionPerilEngine" -> SimSetOfRegion
           key == [ engineVersion |-> region.engineVersion,
                    modelRegionCode |-> model_region_code,
                    perilCode |-> peril_code, regionCode |-> region_code,
                    framework |-> "ELT", petId |-> NoneInt ]
       IN  \/ \* the lookup finds the simulation set
              /\ lookups' = Append(lookups,
                    [region |-> region_idx, by |-> by, ok |-> TRUE])
              /\ AppendEntry(key, region.engineVersion,
                             sim_set.eventRateSchemeId, model_region_code,
                             peril_code, region_code, sim_set.defaultPeriods,
                             sim_set.id)
           \/ \* IRPAPIError: the zeros
              /\ lookups' = Append(lookups,
                    [region |-> region_idx, by |-> by, ok |-> FALSE])
              /\ AppendEntry(key, region.engineVersion,
                             IF rate_scheme_id # NoneInt /\ rate_scheme_id # 0
                                THEN rate_scheme_id ELSE 0,
                             model_region_code, peril_code, region_code, 0, 0)
    /\ NextRegion
    /\ UNCHANGED <<o_result, id_idx, all_regions, has_plt,
                   event_rate_schemes_by_peril_region, buildFrame>>

\* The merge loop and the return.
MergeAndReturn ==
    /\ o_pc = "merge"
    /\ o_result' = MergeEntries(<<>>, result)
    /\ o_pc' = "returned"
    /\ UNCHANGED <<o_error, id_idx, all_regions, has_plt,
                   event_rate_schemes_by_peril_region, region_idx, seen,
                   result, lookups, buildFrame>>

BuildNext ==
    \/ BuildValidate
    \/ CollectRegions
    \/ DecideSimulationSet
    \/ BuildPltEntry
    \/ BuildEltEntry
    \/ MergeAndReturn

BuildSpec == BuildInit /\ [][BuildNext]_vars

(***************************************************************************)
(* RDMManager.poll_delete_rdm_job_to_completion.  The Data Bridge job      *)
(* endpoint answers with the status as plain text; the loop has its own    *)
(* status words and a failure check ahead of the timeout check.            *)
(***************************************************************************)
DeleteRdmPoller == "RDMManager.poll_delete_rdm_job_to_completion"

\* valid_in_progress_statuses
valid_in_progress_statusesMutant == {"Enqueued", "Processing", "Failed"}

valid_in_progress_statuses == {"Enqueued", "Processing"}

success_status == "Succeeded"

\* The texts the endpoint can answer with: the three words of the loop, a
\* failure word, a word of the workflow vocabulary, and the empty text.
DatabridgeStatuses ==
    valid_in_progress_statuses \cup {success_status, "Failed", "FINISHED", ""}

\* The string the call returns, held in the result of the poll variables.
StatusResult(s) == [status |-> s, progress |-> None]

DeleteRdmInit ==
    /\ op = "poll_delete_rdm"
    /\ poller = DeleteRdmPoller
    /\ interval \in 1..MaxInterval
    /\ timeout \in 1..MaxTimeout
    /\ start = 0
    /\ clock = 0
    /\ job_data = NoBody
    /\ status = None
    /\ fetches = 0
    /\ sleeps = 0
    /\ seen_terminal = FALSE
    /\ p_pc = "fetch"
    /\ p_result = NoBody
    /\ p_error = NoError
    /\ BatchIdle
    /\ PagedIdle
    /\ SrvIdle
    /\ RestIdle

\* status = self.get_databridge_job(job_id): response.text, or IRPAPIError
\* for every failure of the request.
GetDatabridgeJob ==
    /\ p_pc = "fetch"
    /\ poller = DeleteRdmPoller
    /\ \E d \in 0..MaxDelay :
        /\ clock' = Advance(d)
        /\ fetches' = Min(fetches + 1, MaxPolls + 1)
        /\ \/ /\ p_pc' = "raised"
              /\ p_error' = [kind |-> "IRPAPIError", last_status |-> None]
              /\ UNCHANGED <<status, seen_terminal>>
           \/ \E text \in DatabridgeStatuses :
              /\ status' = text
              /\ seen_terminal' = (seen_terminal \/ text = success_status)
              /\ p_pc' = "check"
              /\ UNCHANGED p_error
    /\ UNCHANGED <<poller, interval, timeout, start, job_data, sleeps,
                   p_result>>
    /\ UNCHANGED outsidePoll

\* The rest of the iteration: success check, failure check, timeout check,
\* sleep.
DeleteRdmCheck ==
    /\ p_pc = "check"
    /\ poller = DeleteRdmPoller
    /\ IF status = success_status
          THEN /\ p_pc' = "returned"
               /\ p_result' = StatusResult(status)
               /\ UNCHANGED <<clock, sleeps, p_error>>
          ELSE IF status \notin valid_in_progress_statuses
          THEN /\ p_pc' = "raised"
               /\ p_error' = [kind |-> "IRPJobError", last_status |-> status]
               /\ UNCHANGED <<clock, sleeps, p_result>>
          ELSE IF TimedOut(clock, start, timeout)
          THEN /\ p_pc' = "raised"
               /\ p_error' = [kind |-> "IRPJobError", last_status |-> status]
               /\ UNCHANGED <<clock, sleeps, p_result>>
          ELSE /\ \E d \in SleepDurations : clock' = Advance(d)
               /\ sleeps' = Min(sleeps + 1, MaxPolls + 1)
               /\ p_pc' = "fetch"
               /\ UNCHANGED <<p_result, p_error>>
    /\ UNCHANGED <<poller, interval, timeout, start, job_data, status,
                   fetches, seen_terminal>>
    /\ UNCHANGED outsidePoll

DeleteRdmNext == GetDatabridgeJob \/ DeleteRdmCheck

DeleteRdmSpec == DeleteRdmInit /\ [][DeleteRdmNext]_vars

(***************************************************************************)
(* RDMManager.submit_rdm_export_job: server lookup, the check that no      *)
(* database of the name exists (new RDM only), resolution of the names,    *)
(* then the export job.                                                    *)
(***************************************************************************)
MaxExportNames == 2

ExportNames == {"A1", "A2"}

ExportNameLists == UNION { [1..n -> ExportNames] : n \in 0..MaxExportNames }

\* The characters of the database names of the model.
Chars ==
    [ n \in {"", "R", "R1", "R1_x", "S"} |->
        CASE n = "" -> <<>>
          [] n = "R" -> <<"R">>
          [] n = "R1" -> <<"R", "1">>
          [] n = "R1_x" -> <<"R", "1", "_", "x">>
          [] n = "S" -> <<"S">> ]

\* databaseName LIKE "<prefix>*", as the server evaluates the filter.
LikePrefix(name, prefix) ==
    /\ Len(Chars[prefix]) <= Len(Chars[name])
    /\ SubSeq(Chars[name], 1, Len(Chars[prefix])) = Chars[prefix]

DatabaseNames == {"R1", "R1_x", "S"}

\* database_id is None or the id of the RDM to append to.
ExportArgs ==
    [ server_name : {"", "databridge-1"},
      rdm_name : {"", "R", "R1"},
      database_id : {NoneInt, 7},
      skip_missing : BOOLEAN ]

NoExportData == [settings |-> <<>>, resourceUris |-> <<>>]

RdmExportInit ==
    /\ op = "RDMManager.submit_rdm_export_job"
    /\ o_pc = "validate"
    /\ requests = <<>>
    /\ o_result = NoGroupResult
    /\ o_error = NoError
    /\ args \in ExportArgs
    /\ data = NoExportData
    /\ analysis_names \in ExportNameLists
    /\ name_idx = 0
    /\ skipped_items = <<>>
    /\ included_items = <<>>
    /\ analysis_uris = <<>>
    /\ srv_matches \in { m \in [MemberNames -> {0, 1, 2}] :
                           \A n \in MemberNames \ ExportNames : m[n] = 0 }
    /\ srv_databases \in SUBSET DatabaseNames
    /\ software_version_code = <<>>
    /\ job_type = None
    /\ event_rate_scheme_response = NoSchemes
    /\ event_rate_scheme_id = NoneInt
    /\ LookupIdle
    /\ BuildIdle
    /\ BridgeIdle
    /\ CurrencyIdle
    /\ PortfolioIdle
    /\ ExecIdle
    /\ TagIdle
    /\ EdmIdle
    /\ PollIdle
    /\ BatchIdle
    /\ PagedIdle
    /\ SrvIdle

\* What no step of the call changes.
exportFrame == <<op, args, analysis_names, srv_matches, srv_databases,
                 execVars, tagVars, edmVars, software_version_code, job_type,
                 event_rate_scheme_response, event_rate_scheme_id, lookupVars,
                 buildVars, bridgeVars, currencyVars, portfolioVars, pollVars,
                 batchVars, pagedVars, srvVars>>

\* validate_non_empty_string(server_name), (rdm_name),
\* validate_list_not_empty(analysis_names).
RdmExportValidate ==
    /\ o_pc = "validate"
    /\ IF \/ ValidateNonEmptyStringRaises(args.server_name)
          \/ ValidateNonEmptyStringRaises(args.rdm_name)
          \/ ValidateListNotEmptyRaises(analysis_names)
          THEN o_pc' = "raised" /\ o_error' = ValidationError
          ELSE o_pc' = "server" /\ UNCHANGED o_error
    /\ UNCHANGED <<requests, o_result, data, name_idx, skipped_items,
                   included_items, analysis_uris, exportFrame>>

\* if not database_id
NewRdmMutant == TRUE

NewRdm == args.database_id = NoneInt

\* server_id = search_database_servers(...)[0]['serverId']
RdmExportServer ==
    /\ o_pc = "server"
    /\ \/ \* the request fails, or no server record with a serverId comes back
          /\ \E succeeded \in BOOLEAN :
                requests' = Append(requests,
                    Request("GET", "SEARCH_DATABASE_SERVERS", succeeded))
          /\ o_pc' = "raised"
          /\ o_error' = APIError
          /\ UNCHANGED name_idx
       \/ /\ requests' = Append(requests,
                Request("GET", "SEARCH_DATABASE_SERVERS", TRUE))
          /\ IF NewRdm
                THEN o_pc' = "exists" /\ UNCHANGED name_idx
                ELSE o_pc' = "resolve" /\ name_idx' = 1
          /\ UNCHANGED o_error
    /\ UNCHANGED <<o_result, data, skipped_items, included_items,
                   analysis_uris, exportFrame>>

\* existing_rdms = search_databases(server_name, databaseName LIKE "name*")
existing_rdms ==
    { n \in srv_databases : LikePrefix(n, args.rdm_name) }

\* The existence check: search_databases looks the server up once more and
\* then searches its databases.
RdmExportCheckName ==
    /\ o_pc = "exists"
    /\ LET servers(ok) == Request("GET", "SEARCH_DATABASE_SERVERS", ok)
           search(ok) == Request("GET", "SEARCH_DATABASES", ok)
       IN  \/ /\ \E succeeded \in BOOLEAN :
                    requests' = Append(requests, servers(succeeded))
              /\ o_pc' = "raised"
              /\ o_error' = APIError
              /\ UNCHANGED name_idx
           \/ /\ requests' = requests \o <<servers(TRUE), search(FALSE)>>
              /\ o_pc' = "raised"
              /\ o_error' = APIError
              /\ UNCHANGED name_idx
           \/ /\ requests' = requests \o <<servers(TRUE), search(TRUE)>>
              /\ IF existing_rdms # {}
                    THEN /\ o_pc' = "raised"
                         /\ o_error' = APIError
                         /\ UNCHANGED name_idx
                    ELSE /\ o_pc' = "resolve"
                         /\ name_idx' = 1
                         /\ UNCHANGED o_error
    /\ UNCHANGED <<o_result, data, skipped_items, included_items,
                   analysis_uris, exportFrame>>

\* One iteration of the for loop.  Its three branches (group name, analysis
\* name with an EDM, analysis name alone) differ in the filter only.
RdmExportResolve ==
    /\ o_pc = "resolve"
    /\ LET name == analysis_names[name_idx]
           n_found == srv_matches[name]
           advance == /\ name_idx' = name_idx + 1
                      /\ o_pc' = IF name_idx = Len(analysis_names)
                                    THEN "submit" ELSE "resolve"
                      /\ UNCHANGED o_error
           raise == /\ o_pc' = "raised"
                    /\ o_error' = APIError
                    /\ UNCHANGED <<name_idx, skipped_items, included_items,
                                   analysis_uris>>
       IN  \/ /\ requests' = Append(requests,
                    Request("GET", "SEARCH_ANALYSIS_RESULTS", FALSE))
              /\ raise
           \/ /\ requests' = Append(requests,
                    Request("GET", "SEARCH_ANALYSIS_RESULTS", TRUE))
              /\ IF n_found = 0
                    THEN IF args.skip_missing
                            THEN /\ skipped_items' =
                                       Append(skipped_items, name)
                                 /\ advance
                                 /\ UNCHANGED <<included_items,
                                                analysis_uris>>
                            ELSE raise
                 ELSE IF n_found > 1 THEN raise
                 ELSE \/ \* the record found has no 'uri'
                         raise
                      \/ /\ analysis_uris' =
                               Append(analysis_uris, Uri(name))
                         /\ included_items' = Append(included_items, name)
                         /\ advance
                         /\ UNCHANGED skipped_items
    /\ UNCHANGED <<o_result, data, exportFrame>>

\* settings: databaseId when a database_id was given, rdmName otherwise.
ExportSettings ==
    IF NewRdm
       THEN [rdmName |-> args.rdm_name, serverId |-> 3]
       ELSE [databaseId |-> args.database_id, serverId |-> 3]

\* After the loop: the skip result when nothing resolved, else the request
\* body and POST CREATE_RDM_EXPORT_JOB.
RdmExportSubmit ==
    /\ o_pc = "submit"
    /\ IF analysis_uris = <<>>
          THEN /\ o_pc' = "returned"
               /\ o_result' = [ job_id |-> NoneInt, skipped |-> TRUE,
                                skipped_items |-> skipped_items,
                                included_items |-> <<>> ]
               /\ UNCHANGED <<requests, o_error, data>>
          ELSE /\ data' = [ settings |-> ExportSettings,
                            resourceUris |-> analysis_uris ]
               /\ \/ \* the request fails, or its Location header is unusable
                     /\ \E succeeded \in BOOLEAN :
                           requests' = Append(requests,
                               Request("POST", "CREATE_RDM_EXPORT_JOB",
                                       succeeded))
                     /\ o_pc' = "raised"
                     /\ o_error' = APIError
                     /\ UNCHANGED o_result
                  \/ /\ requests' = Append(requests,
                           Request("POST", "CREATE_RDM_EXPORT_JOB", TRUE))
                     /\ o_pc' = "returned"
                     /\ o_result' = [ job_id |-> 701,
                                      skipped |-> FALSE,
                                      skipped_items |-> skipped_items,
                                      included_items |-> included_items ]
                     /\ UNCHANGED o_error
    /\ UNCHANGED <<name_idx, skipped_items, included_items, analysis_uris,
                   exportFrame>>

RdmExportNext ==
    \/ RdmExportValidate
    \/ RdmExportServer
    \/ RdmExportCheckName
    \/ RdmExportResolve
    \/ RdmExportSubmit

RdmExportSpec == RdmExportInit /\ [][RdmExportNext]_vars

(***************************************************************************)
(* The import workflows: EDMManager.submit_edm_import_job,                 *)
(* RDMManager.submit_rdm_import_job, MRIImportManager.submit_mri_import_job.*)
(* Each is straight-line code: lookups, folder creation, the uploads, the  *)
(* job submission; every failure raises out of the call.                   *)
(***************************************************************************)
ImportOps ==
    { "EDMManager.submit_edm_import_job",
      "RDMManager.submit_rdm_import_job",
      "MRIImportManager.submit_mri_import_job" }

\* The arguments that decide the path of the call.  files_exist stands for
\* the outcome of validate_file_exists on the file paths given.
ImportArgs ==
    [ edm_name : {"", "E1"},
      files_exist : BOOLEAN,
      mapping_file_path : {None, "map.mff"} ]

Upload(file_type) == Request("UPLOAD", file_type, TRUE)

\* exposure_sets of submit_edm_import_job is not empty: the set was on the
\* platform before the call created any.
FoundExposureSet ==
    /\ args.edm_name \in srv_exposure_sets
    /\ \A i \in DOMAIN requests : requests[i].path # "CREATE_EXPOSURE_SET"

\* The requests and uploads of a call, in the order the code makes them
\* when none fails.
ImportPlanMutant(operation) ==
    CASE operation = "EDMManager.submit_edm_import_job" ->
           << Request("GET", "SEARCH_DATABASE_SERVERS", TRUE),
              Request("POST", "CREATE_IMPORT_FOLDER", TRUE),
              Request("GET", "SEARCH_EXPOSURE_SETS", TRUE),
              Request("POST", "SUBMIT_IMPORT_JOB", TRUE),
              Upload("exposureFile") >>
      [] operation = "RDMManager.submit_rdm_import_job" ->
           << Request("GET", "SEARCH_EDMS", TRUE),
              Request("POST", "CREATE_IMPORT_FOLDER", TRUE),
              Request("POST", "SUBMIT_IMPORT_JOB", TRUE),
              Upload("resultsFile") >>
      [] operation = "MRIImportManager.submit_mri_import_job" ->
           << Request("GET", "SEARCH_EDMS", TRUE),
              Request("GET", "SEARCH_PORTFOLIOS", TRUE),
              Request("POST", "CREATE_IMPORT_FOLDER", TRUE),
              Upload("accountsFile"),
              Upload("locationsFile"),
              Request("POST", "SUBMIT_IMPORT_JOB", TRUE) >>

ImportPlan(operation) ==
    CASE operation = "EDMManager.submit_edm_import_job" ->
           << Request("GET", "SEARCH_DATABASE_SERVERS", TRUE),
              Request("POST", "CREATE_IMPORT_FOLDER", TRUE),
              Upload("exposureFile"),
              Request("GET", "SEARCH_EXPOSURE_SETS", TRUE) >>
           \o (IF FoundExposureSet THEN <<>>
               ELSE << Request("POST", "CREATE_EXPOSURE_SET", TRUE) >>)
           \o << Request("POST", "SUBMIT_IMPORT_JOB", TRUE) >>
      [] operation = "RDMManager.submit_rdm_import_job" ->
           << Request("GET", "SEARCH_EDMS", TRUE),
              Request("POST", "CREATE_IMPORT_FOLDER", TRUE),
              Upload("resultsFile"),
              Request("POST", "SUBMIT_IMPORT_JOB", TRUE) >>
      [] operation = "MRIImportManager.submit_mri_import_job" ->
           << Request("GET", "SEARCH_EDMS", TRUE),
              Request("GET", "SEARCH_PORTFOLIOS", TRUE),
              Request("POST", "CREATE_IMPORT_FOLDER", TRUE),
              Upload("accountsFile"),
              Upload("locationsFile") >>
           \o (IF args.mapping_file_path = None THEN <<>>
               ELSE << Upload("mappingFile") >>)
           \o << Request("POST", "SUBMIT_IMPORT_JOB", TRUE) >>

\* A response the code can refuse although the request succeeded: a search
\* with the wrong number of records, a record or response without the
\* expected key, an unusable Location header.  An exposure set search that
\* finds nothing is not refused: the set is created.
ImportCanReject(r) ==
    /\ r.method # "UPLOAD"
    /\ r.path = "SEARCH_EXPOSURE_SETS" => FoundExposureSet

\* What a call raises when it stops at r.  An upload stops with a file error
\* of the transfer, with a validation error of the upload details, or (MRI)
\* with an API error when the folder response has no entry for the file.
ImportErrors(r, succeeded) ==
    IF r.method = "UPLOAD"
       THEN {FileError, ValidationError}
            \cup (IF op = "MRIImportManager.submit_mri_import_job"
                     THEN {APIError} ELSE {})
    ELSE IF r.path = "SEARCH_DATABASE_SERVERS" /\ succeeded
       THEN {ReferenceDataError, APIError}
    ELSE {APIError}

ImportInit ==
    /\ op \in ImportOps
    /\ o_pc = "validate"
    /\ requests = <<>>
    /\ o_result = NoneInt
    /\ o_error = NoError
    /\ args \in ImportArgs
    /\ srv_exposure_sets \in SUBSET {"E1"}
    /\ edm_names = <<>>
    /\ edm_idx = 0
    /\ exposure_id = 0
    /\ analyses = <<>>
    /\ analysis_idx = 0
    /\ srv_edms = {}
    /\ srv_analyses = {}
    /\ software_version_code = <<>>
    /\ job_type = None
    /\ event_rate_scheme_response = NoSchemes
    /\ event_rate_scheme_id = NoneInt
    /\ data = NoData
    /\ ManagersIdle
    /\ ExecIdle
    /\ TagIdle
    /\ PollIdle
    /\ BatchIdle
    /\ PagedIdle
    /\ SrvIdle

\* What no step of the call changes.
importFrame == <<op, args, execVars, tagVars, edm_names, edm_idx, exposure_id,
                 analyses, analysis_idx, srv_edms, srv_analyses,
                 software_version_code, job_type, event_rate_scheme_response,
                 event_rate_scheme_id, data, managerVars, pollVars, batchVars,
                 pagedVars, srvVars>>

\* validate_non_empty_string and validate_file_exists on the arguments.
ImportValidate ==
    /\ o_pc = "validate"
    /\ IF ValidateNonEmptyStringRaises(args.edm_name) \/ ~args.files_exist
          THEN o_pc' = "raised" /\ o_error' = ValidationError
          ELSE o_pc' = "run" /\ UNCHANGED o_error
    /\ UNCHANGED <<requests, o_result, srv_exposure_sets, importFrame>>

\* The next request or upload of the plan.
ImportStep ==
    /\ o_pc = "run"
    /\ LET plan == ImportPlan(op)
           k == Len(requests) + 1
           r == plan[k]
           stop(succeeded) ==
              /\ requests' = Append(requests, [r EXCEPT !.ok = succeeded])
              /\ o_pc' = "raised"
              /\ o_error' \in ImportErrors(r, succeeded)
              /\ UNCHANGED o_result
       IN  /\ \/ stop(FALSE) /\ UNCHANGED srv_exposure_sets
              \/ /\ ImportCanReject(r)
                 /\ stop(TRUE)
                 /\ srv_exposure_sets' =
                       IF r.path = "CREATE_EXPOSURE_SET"
                          THEN srv_exposure_sets \cup {args.edm_name}
                          ELSE srv_exposure_sets
              \/ /\ requests' = Append(requests, r)
                 /\ srv_exposure_sets' =
                       IF r.path = "CREATE_EXPOSURE_SET"
                          THEN srv_exposure_sets \cup {args.edm_name}
                          ELSE srv_exposure_sets
                 /\ IF r.path = "SUBMIT_IMPORT_JOB"
                       THEN o_pc' = "returned" /\ o_result' = 801
                       ELSE o_pc' = "run" /\ UNCHANGED o_result
                 /\ UNCHANGED o_error
    /\ UNCHANGED importFrame

ImportNext == ImportValidate \/ ImportStep

ImportSpec == ImportInit /\ [][ImportNext]_vars

(***************************************************************************)
(* DataBridgeManager: parameter substitution, the scoped connection, and   *)
(* the four execute_* functions built on them.                             *)
(*                                                                         *)
(* A query text is a sequence of tokens: pieces of SQL text and            *)
(* placeholders {{ name }}.  The pieces are the ones the four context      *)
(* patterns of _substitute_named_parameters look at: an opening and a      *)
(* closing square bracket, a single quote, identifier text ending in an    *)
(* underscore, identifier text starting with one, and other text.  A text  *)
(* is the sequence of its characters.                                      *)
(***************************************************************************)
MaxTokens == 3

ParamNames == {"a", "b"}

Text(chars) == [kind |-> "text", name |-> "", s |-> chars]

Placeholder(key) == [kind |-> "ph", name |-> key, s |-> <<"{", "{", key, "}", "}">>]

Quote == <<"'">>

QueryTokens ==
    { Text(<<"[">>), Text(<<"]">>), Text(Quote), Text(<<"t", "_">>),
      Text(<<"_", "t">>), Text(<<"=">>) }
    \cup { Placeholder(key) : key \in ParamNames }

Queries == UNION { [1..n -> QueryTokens] : n \in 1..MaxTokens }

\* Parameter values after _convert_param_value, each with the characters of
\* its str(): two strings, an int, a float, None and a list.
ParamValues ==
    { [type |-> "str", text |-> <<"a", "b">>],
      [type |-> "str", text |-> <<"a", "'", "b">>],
      [type |-> "int", text |-> <<"7">>],
      [type |-> "float", text |-> <<"1", ".", "5">>],
      [type |-> "None", text |-> <<"N", "o", "n", "e">>],
      [type |-> "list", text |-> <<"[", "1", "]">>] }

\* The params argument: None, or a dict (the empty dict included).
ParamDicts ==
    {NoParams}
    \cup { [kind |-> "dict", items |-> d] :
              d \in UNION { [keys -> ParamValues] : keys \in SUBSET ParamNames } }

\* c.isalnum() or c in ('_', '-', ' ', '/')
IdentifierChars == {"a", "b", "t", "1", "5", "7", "N", "o", "n", "e",
                    "_", "-", " ", "/"}

IsText(q, i, chars) ==
    i \in DOMAIN q /\ q[i].kind = "text" /\ q[i].s = chars

Occurrences(q, key) ==
    { i \in DOMAIN q : q[i].kind = "ph" /\ q[i].name = key }

\* The four identifier_patterns, at the occurrence at position i:
\*   \[\s*{{key}}\s*\]
\*   '[^'\n\r]*{{key}}[^'\n\r]*'
\*   \w+_{{key}}
\*   {{key}}_\w+
MatchesIdentifierPattern(q, i) ==
    \/ IsText(q, i - 1, <<"[">>) /\ IsText(q, i + 1, <<"]">>)
    \/ /\ \E j \in 1..(i - 1) : IsText(q, j, Quote)
       /\ \E k \in (i + 1)..Len(q) : IsText(q, k, Quote)
    \/ IsText(q, i - 1, <<"t", "_">>)
    \/ IsText(q, i + 1, <<"_", "t">>)

\* is_identifier = any(re.search(pattern, query) ...): one flag per key,
\* set by any occurrence of the key in the query.
is_identifier(q, key) ==
    \E i \in Occurrences(q, key) : MatchesIdentifierPattern(q, i)

\* value.replace("'", "''")
RECURSIVE DoubleQuotes(_)
DoubleQuotes(t) ==
    IF t = <<>> THEN <<>>
    ELSE (IF Head(t) = "'" THEN <<"'", "'">> ELSE <<Head(t)>>)
         \o DoubleQuotes(Tail(t))

_escape_sql_value(value) ==
    CASE value.type = "None" -> <<"N", "U", "L", "L">>
      [] value.type \in {"int", "float"} -> value.text
      [] OTHER -> Quote \o DoubleQuotes(value.text) \o Quote

\* The keys whose value fails the identifier check: strings only.
InvalidIdentifierKeys(q, items) ==
    { key \in DOMAIN items :
        /\ is_identifier(q, key)
        /\ items[key].type = "str"
        /\ \E i \in DOMAIN items[key].text :
              items[key].text[i] \notin IdentifierChars }

escaped_params(q, items) ==
    [ key \in DOMAIN items |->
        IF is_identifier(q, key) THEN items[key].text
                                 ELSE _escape_sql_value(items[key]) ]

\* The placeholders of the query that have no entry, in query order.
MissingAt(q, items) ==
    { i \in DOMAIN q : q[i].kind = "ph" /\ q[i].name \notin DOMAIN items }

\* if not params: return query  (None and the empty dict alike)
ReturnsQueryUnchanged(p) == p.kind = "None" \/ DOMAIN p.items = {}

\* The text of a query, piece by piece.
Pieces(q) == [i \in DOMAIN q |-> q[i].s]

\* template.substitute(escaped_params), piece by piece.
TemplateSubstitute(q, items) ==
    [ i \in DOMAIN q |->
        IF q[i].kind = "ph" THEN escaped_params(q, items)[q[i].name]
                            ELSE q[i].s ]

QueryError(key, keys) ==
    [ kind |-> "IRPDataBridgeQueryError", last_status |-> None,
      parameter |-> key, provided |-> keys ]

ConnectionError ==
    [ kind |-> "IRPDataBridgeConnectionError", last_status |-> None,
      parameter |-> None, provided |-> {} ]

BridgeOps ==
    { "DataBridgeManager.execute_query",
      "DataBridgeManager.execute_scalar",
      "DataBridgeManager.execute_command",
      "DataBridgeManager.execute_query_from_file" }

\* Every query and params for execute_query; the other three functions
\* substitute by the same call, and run on two queries.
BridgeInit ==
    /\ op \in BridgeOps
    /\ o_pc = "read"
    /\ requests = <<>>
    /\ o_result = None
    /\ o_error = NoError
    /\ query \in Queries
    /\ params \in ParamDicts
    /\ op # "DataBridgeManager.execute_query" =>
          /\ query \in { <<Text(<<"=">>)>>, <<Text(<<"=">>), Placeholder("a")>> }
          /\ params.kind = "dict" => DOMAIN params.items = {"a"}
    /\ connections = <<>>
    /\ substituted = <<>>
    /\ executed = <<>>
    /\ ExportIdle
    /\ CurrencyIdle
    /\ PortfolioIdle
    /\ GroupingIdle
    /\ LookupIdle
    /\ BuildIdle
    /\ AnalysisIdle
    /\ ExecIdle
    /\ TagIdle
    /\ EdmIdle
    /\ PollIdle
    /\ BatchIdle
    /\ PagedIdle
    /\ SrvIdle

\* What no step of the call changes.
bridgeFrame == <<op, requests, o_result, query, params, exportVars,
                 currencyVars, portfolioVars, groupingVars, lookupVars, buildVars,
                 analysisVars, execVars, tagVars, edmVars, pollVars,
                 batchVars, pagedVars, srvVars>>

\* query = self._read_sql_file(file_path), execute_query_from_file only:
\* outside the try block, so its errors leave the call as they are.
ReadSqlFile ==
    /\ o_pc = "read"
    /\ IF op = "DataBridgeManager.execute_query_from_file"
          THEN \/ /\ o_pc' = "raised"
                  /\ \E e \in {ValidationError, QueryError(None, {})} :
                        o_error' = e
               \/ o_pc' = "substitute" /\ UNCHANGED o_error
          ELSE o_pc' = "substitute" /\ UNCHANGED o_error
    /\ UNCHANGED <<connections, substituted, executed, bridgeFrame>>

\* if isinstance(params, dict): query = _substitute_named_parameters(...)
\* An error of the substitution (the ValueError of the identifier check as
\* well) is turned into IRPDataBridgeQueryError, its message kept.
SubstituteNamedParameters ==
    /\ o_pc = "substitute"
    /\ IF ReturnsQueryUnchanged(params)
          THEN /\ substituted' = Pieces(query)
               /\ o_pc' = "connect"
               /\ UNCHANGED o_error
          ELSE IF InvalidIdentifierKeys(query, params.items) # {}
          THEN /\ \E key \in InvalidIdentifierKeys(query, params.items) :
                     o_error' = QueryError(key, {})
               /\ o_pc' = "raised"
               /\ UNCHANGED substituted
          ELSE IF MissingAt(query, params.items) # {}
          THEN /\ LET first == CHOOSE i \in MissingAt(query, params.items) :
                                 \A j \in MissingAt(query, params.items) :
                                    i <= j
                   IN  o_error' = QueryError(query[first].name,
                                             DOMAIN params.items)
               /\ o_pc' = "raised"
               /\ UNCHANGED substituted
          ELSE /\ substituted' = TemplateSubstitute(query, params.items)
               /\ o_pc' = "connect"
               /\ UNCHANGED o_error
    /\ UNCHANGED <<connections, executed, bridgeFrame>>

\* get_connection up to its yield: conn = pyodbc.connect(...).
Connect ==
    /\ o_pc = "connect"
    /\ \/ /\ o_pc' = "raised"
          /\ o_error' = ConnectionError
          /\ UNCHANGED connections
       \/ /\ connections' = Append(connections, "open")
          /\ o_pc' = "use"
          /\ UNCHANGED o_error
    /\ UNCHANGED <<substituted, executed, bridgeFrame>>

\* The body of the with block: the query goes to the driver; the body ends
\* normally or with an exception (of the driver or any other).
UseConnection ==
    /\ o_pc = "use"
    /\ executed' = Append(executed, substituted)
    /\ \/ UNCHANGED o_error
       \/ o_error' = QueryError(None, {})
    /\ o_pc' = "exit"
    /\ UNCHANGED <<connections, substituted, bridgeFrame>>

\* finally: if conn: conn.close(), an error of close() swallowed; then the
\* call returns, or the exception of the body goes on.
CloseMutant(conns) ==
    IF o_error = NoError THEN [i \in DOMAIN conns |-> "closed"] ELSE conns

Close(conns) == [i \in DOMAIN conns |-> "closed"]

ExitConnection ==
    /\ o_pc = "exit"
    /\ connections' = Close(connections)
    /\ o_pc' = IF o_error = NoError THEN "returned" ELSE "raised"
    /\ UNCHANGED <<o_error, substituted, executed, bridgeFrame>>

BridgeNext ==
    \/ ReadSqlFile
    \/ SubstituteNamedParameters
    \/ Connect
    \/ UseConnection
    \/ ExitConnection

BridgeSpec == BridgeInit /\ [][BridgeNext]_vars

(***************************************************************************)
(* ReferenceDataManager.get_analysis_currency: the latest RMS currency     *)
(* scheme vintage, made into the currency dict of an analysis request, or  *)
(* the hardcoded default.                                                  *)
(***************************************************************************)
MaxVintages == 2

VintageFields == {"effectiveDate", "currencySchemeCode", "vintage"}

\* A vintage record: the keys it has, and the day of its effectiveDate.
Vintages == [fields : SUBSET VintageFields, day : 1..2]

\* What the vintage search answers: the request fails, or a body with or
\* without the key 'items'.
VintageResponses ==
    { [ok |-> FALSE, has_items |-> FALSE, items |-> <<>>],
      [ok |-> TRUE, has_items |-> FALSE, items |-> <<>>] }
    \cup { [ok |-> TRUE, has_items |-> TRUE, items |-> items] :
              items \in UNION { [1..n -> Vintages] : n \in 0..MaxVintages } }

\* _build_default_analysis_currency_dict()
DefaultCurrency ==
    [asOfDate |-> "2025-05-28", code |-> "USD", scheme |-> "RMS",
     vintage |-> "RL25"]

\* vintage["effectiveDate"].split("T")[0]
DateOfDay == <<"2026-01-01", "2026-06-01">>

\* _build_analysis_currency_dict(vintage): the date of the record's day, the
\* scheme code and the vintage of the record.
BuiltCurrency(v) ==
    [asOfDate |-> DateOfDay[v.day], code |-> "USD", scheme |-> "scheme of the record",
     vintage |-> "vintage of the record"]

\* max(items, key=lambda x: x['effectiveDate']): the first of the latest.
Latest(items) ==
    items[CHOOSE i \in DOMAIN items :
             /\ \A j \in DOMAIN items : items[j].day <= items[i].day
             /\ \A j \in 1..(i - 1) : items[j].day < items[i].day]

\* get_latest_currency_scheme_vintage raises IRPAPIError: failed request,
\* no 'items', no item, or an item without 'effectiveDate' (the KeyError of
\* the key function is inside the try block).
LatestVintageFails(r) ==
    \/ ~r.ok
    \/ ~r.has_items
    \/ r.items = <<>>
    \/ \E i \in DOMAIN r.items : "effectiveDate" \notin r.items[i].fields

CurrencyInit ==
    /\ op = "ReferenceDataManager.get_analysis_currency"
    /\ o_pc = "latest"
    /\ requests = <<>>
    /\ o_result = DefaultCurrency
    /\ o_error = NoError
    /\ vintages_response \in VintageResponses
    /\ ExportIdle
    /\ BridgeIdle
    /\ PortfolioIdle
    /\ GroupingIdle
    /\ LookupIdle
    /\ BuildIdle
    /\ AnalysisIdle
    /\ ExecIdle
    /\ TagIdle
    /\ EdmIdle
    /\ PollIdle
    /\ BatchIdle
    /\ PagedIdle
    /\ SrvIdle

currencyFrame == <<op, vintages_response, exportVars, bridgeVars,
                   portfolioVars,
                   groupingVars, lookupVars, buildVars, analysisVars,
                   execVars, tagVars, edmVars, pollVars, batchVars,
                   pagedVars, srvVars>>

\* latest_vintage = self.get_latest_currency_scheme_vintage(); its
\* IRPAPIError is caught by the except clause of get_analysis_currency,
\* which returns the default dict.
GetLatestCurrencySchemeVintage ==
    /\ o_pc = "latest"
    /\ requests' = Append(requests,
          Request("GET", "SEARCH_CURRENCY_SCHEME_VINTAGES",
                  vintages_response.ok))
    /\ IF LatestVintageFails(vintages_response)
          THEN /\ o_pc' = "returned"
               /\ o_result' = DefaultCurrency
               /\ UNCHANGED o_error
          ELSE /\ o_pc' = "build"
               /\ UNCHANGED <<o_result, o_error>>
    /\ UNCHANGED currencyFrame

\* return _build_analysis_currency_dict(latest_vintage): a missing key is a
\* KeyError, which the except clause does not catch.
BuildAnalysisCurrencyDict ==
    /\ o_pc = "build"
    /\ LET latest == Latest(vintages_response.items)
       IN  IF {"currencySchemeCode", "vintage"} \subseteq latest.fields
              THEN /\ o_pc' = "returned"
                   /\ o_result' = BuiltCurrency(latest)
                   /\ UNCHANGED o_error
              ELSE /\ o_pc' = "raised"
                   /\ o_error' = KeyError
                   /\ UNCHANGED o_result
    /\ UNCHANGED <<requests, currencyFrame>>

CurrencyNext == GetLatestCurrencySchemeVintage \/ BuildAnalysisCurrencyDict

CurrencySpec == CurrencyInit /\ [][CurrencyNext]_vars

(***************************************************************************)
(* Texts whose length matters: a text is the sequence of its characters,   *)
(* a character a number.  Treaty and portfolio numbers are sent cut to     *)
(* their first NUMBER_LENGTH characters.                                   *)
(***************************************************************************)
NUMBER_LENGTH == 20

MaxNumberLen == 21

NumberText(n) == [i \in 1..n |-> i]

NameText(n) == [i \in 1..n |-> 100 + i]

\* Non-empty numbers: one character, and the lengths around NUMBER_LENGTH.
NumberTexts ==
    {NumberText(n) : n \in {1} \cup (NUMBER_LENGTH - 1)..MaxNumberLen}

\* text[:n]
SliceMutant(text, n) == text

Slice(text, n) == SubSeq(text, 1, Min(Len(text), n))

\* if (len(portfolios) > 0): raise
PortfolioExistsMutant(n) == FALSE

PortfolioExists(n) == n > 0

(***************************************************************************)
(* TreatyManager.create_treaty: the validation of the arguments, the       *)
(* lookups of the EDM, of its cedant and of the currency, the creation     *)
(* request and the assignment of the LOBs of the EDM to the new treaty.    *)
(*                                                                         *)
(* The numeric arguments are one function from their names to their        *)
(* values; a call differs from the all-positive call in at most MaxVaried  *)
(* of them.                                                                *)
(***************************************************************************)
MaxVaried == 2

MaxLobs == 2

\* The arguments handed to validate_non_negative_float.
NonNegativeFloatArgs ==
    {"per_risk_limit", "occurrence_limit", "attachment_point", "pct_covered",
     "pct_placed", "pct_share", "pct_retention", "premium",
     "pct_reinstatement_charge", "aggregate_limit", "aggregate_deductible"}

\* The arguments handed to validate_non_negative_int.
NonNegativeIntArgs == {"num_reinstatements"}

\* The numeric arguments of create_treaty.
NumericArgs == NonNegativeFloatArgs \cup NonNegativeIntArgs \cup {"priority"}

TREATY_TYPES ==
    [k \in {"Catastrophe", "Corporate Catastrophe", "Non-Catastrophe",
            "Quota Share", "Stop Loss", "Surplus Share", "Working Excess"} |->
       CASE k = "Catastrophe" -> "CATA"
         [] k = "Corporate Catastrophe" -> "CORP"
         [] k = "Non-Catastrophe" -> "NCAT"
         [] k = "Quota Share" -> "QUOT"
         [] k = "Stop Loss" -> "STOP"
         [] k = "Surplus Share" -> "SURP"
         [] k = "Working Excess" -> "WORK"]

TREATY_ATTACHMENT_BASES ==
    [k \in {"Losses Occurring", "Risks Attaching"} |->
       IF k = "Losses Occurring" THEN "L" ELSE "R"]

TREATY_ATTACHMENT_LEVELS ==
    [k \in {"Account", "Portfolio", "Policy", "Location"} |->
       CASE k = "Account" -> "ACCT"
         [] k = "Portfolio" -> "PORT"
         [] k = "Policy" -> "POL"
         [] k = "Location" -> "LOC"]

\* validate_non_negative_float and validate_non_negative_int.
ValidateNonNegativeRaises(v) == v < 0

NumberArgs ==
    UNION { { [f \in NumericArgs |-> IF f \in S THEN g[f] ELSE 5] :
                g \in [S -> {-1, 0}] } :
            S \in {T \in SUBSET NumericArgs : Cardinality(T) <= MaxVaried} }

TreatyArgs ==
    [edm_name : {"E1", ""},
     treaty_number : NumberTexts,
     treaty_type : {"Quota Share", "Facultative"},
     attachment_basis : {"Risks Attaching", "Claims Made"},
     attachment_level : {"Portfolio", "Layer"},
     numbers : NumberArgs]

\* The ids of the LOBs of the EDM, as get_lobs_by_edm returns them.
LobLists == {[i \in 1..n |-> i] : n \in 0..MaxLobs}

\* The body of the creation request.
TreatyData ==
    [treatyNumber |-> Slice(args.treaty_number, NUMBER_LENGTH),
     treatyType |-> TREATY_TYPES[args.treaty_type],
     attachmentBasis |-> TREATY_ATTACHMENT_BASES[args.attachment_basis],
     attachmentLevel |-> TREATY_ATTACHMENT_LEVELS[args.attachment_level],
     numbers |-> args.numbers]

\* What the validation at the head of create_treaty refuses.
TreatyValidationRaises ==
    \/ ValidateNonEmptyStringRaises(args.edm_name)
    \/ ValidateNonEmptyStringRaises(args.treaty_type)
    \/ ValidateNonEmptyStringRaises(args.attachment_basis)
    \/ ValidateNonEmptyStringRaises(args.attachment_level)
    \/ \E f \in NonNegativeFloatArgs \cup NonNegativeIntArgs :
          ValidateNonNegativeRaises(args.numbers[f])
    \/ args.treaty_type \notin DOMAIN TREATY_TYPES
    \/ args.attachment_basis \notin DOMAIN TREATY_ATTACHMENT_BASES
    \/ args.attachment_level \notin DOMAIN TREATY_ATTACHMENT_LEVELS

\* The request create_treaty_lob makes for one LOB.
CreateTreatyLob(lob_id) ==
    [method |-> "POST", path |-> "CREATE_TREATY_LOB", ok |-> TRUE,
     lobId |-> lob_id]

TreatyPlanMutant ==
    << Request("GET", "SEARCH_EDMS", TRUE),
       Request("GET", "GET_CEDANTS", TRUE),
       Request("GET", "SEARCH_CURRENCIES", TRUE),
       Request("POST", "CREATE_TREATY", TRUE),
       Request("GET", "GET_LOBS", TRUE) >>
    \o [i \in 1..Min(Len(found), 1) |-> CreateTreatyLob(found[i])]

\* The requests of a call, in the order the code makes them when none
\* fails: one LOB request per LOB of the EDM, in the order of the LOBs.
TreatyPlan ==
    << Request("GET", "SEARCH_EDMS", TRUE),
       Request("GET", "GET_CEDANTS", TRUE),
       Request("GET", "SEARCH_CURRENCIES", TRUE),
       Request("POST", "CREATE_TREATY", TRUE),
       Request("GET", "GET_LOBS", TRUE) >>
    \o [i \in 1..Len(found) |-> CreateTreatyLob(found[i])]

\* What a call raises when it stops at r.  A cedant list that is empty or
\* has several cedants is a reference data error; everything else, a failed
\* request included, is or is wrapped into an API error.
TreatyErrors(r, succeeded) ==
    IF r.path = "GET_CEDANTS" /\ succeeded
       THEN {ReferenceDataError, APIError}
       ELSE {APIError}

TreatyInit ==
    /\ op = "TreatyManager.create_treaty"
    /\ o_pc = "validate"
    /\ requests = <<>>
    /\ o_result = NoneInt
    /\ o_error = NoError
    /\ args \in TreatyArgs
    /\ found \in LobLists
    /\ software_version_code = <<>>
    /\ job_type = None
    /\ event_rate_scheme_response = NoSchemes
    /\ event_rate_scheme_id = NoneInt
    /\ data = NoData
    /\ GroupingIdle
    /\ BuildIdle
    /\ ServiceIdle
    /\ EdmIdle
    /\ ExecIdle
    /\ TagIdle
    /\ PollIdle
    /\ BatchIdle
    /\ PagedIdle
    /\ SrvIdle

\* What no step of the call changes.
treatyFrame == <<op, args, found, execVars, tagVars, edmVars,
                 software_version_code, job_type, event_rate_scheme_response,
                 event_rate_scheme_id, groupingVars, buildVars, serviceVars,
                 pollVars, batchVars, pagedVars, srvVars>>

\* The validators and the three membership tests.
TreatyValidate ==
    /\ op = "TreatyManager.create_treaty"
    /\ o_pc = "validate"
    /\ IF TreatyValidationRaises
          THEN o_pc' = "raised" /\ o_error' = ValidationError
          ELSE o_pc' = "run" /\ UNCHANGED o_error
    /\ UNCHANGED <<requests, o_result, data, treatyFrame>>

\* The next request of the plan.  The creation request carries data; the
\* call returns the treaty id once the last LOB is assigned.
TreatyStep ==
    /\ op = "TreatyManager.create_treaty"
    /\ o_pc = "run"
    /\ LET plan == TreatyPlan
           k == Len(requests) + 1
           r == plan[k]
       IN  /\ data' = IF r.path = "CREATE_TREATY" THEN TreatyData ELSE data
           /\ \/ \E succeeded \in BOOLEAN :
                    /\ requests' = Append(requests, [r EXCEPT !.ok = succeeded])
                    /\ o_pc' = "raised"
                    /\ o_error' \in TreatyErrors(r, succeeded)
                    /\ UNCHANGED o_result
              \/ /\ requests' = Append(requests, r)
                 /\ IF k = Len(plan)
                       THEN o_pc' = "returned" /\ o_result' = 901
                       ELSE o_pc' = "run" /\ UNCHANGED o_result
                 /\ UNCHANGED o_error
    /\ UNCHANGED treatyFrame

TreatyNext == TreatyValidate \/ TreatyStep

TreatySpec == TreatyInit /\ [][TreatyNext]_vars

(***************************************************************************)
(* PortfolioManager.create_portfolio, called by independent callers on the *)
(* same EDM.  Each caller runs the code of one call: validation, the EDM   *)
(* search, the search for a portfolio of the name, the creation request.   *)
(* One step is one request with the local code up to the next request;     *)
(* the steps of the callers interleave freely.  args, data, o_result and   *)
(* o_error hold one value per caller; requests is the log of the platform. *)
(***************************************************************************)
Callers == {1, 2}

PortfolioArgs ==
    [edm_name : {"E1", ""},
     portfolio_name : {NameText(2), NameText(MaxNumberLen)},
     portfolio_number : {<<>>} \cup NumberTexts]

CallerRequest(c, m, p, succeeded) ==
    [method |-> m, path |-> p, ok |-> succeeded, caller |-> c]

\* if not portfolio_number: portfolio_number = portfolio_name
portfolio_number(a) ==
    IF a.portfolio_number = <<>> THEN a.portfolio_name
                                 ELSE a.portfolio_number

\* The body of the creation request.
PortfolioData(a) ==
    [portfolioName |-> a.portfolio_name,
     portfolioNumber |-> Slice(portfolio_number(a), NUMBER_LENGTH)]

NoPortfolioData == [portfolioName |-> <<>>, portfolioNumber |-> <<>>]

PortfolioInit ==
    /\ op = "PortfolioManager.create_portfolio"
    /\ o_pc = "callers"
    /\ requests = <<>>
    /\ o_result = [c \in Callers |-> NoneInt]
    /\ o_error = [c \in Callers |-> NoError]
    /\ args \in [Callers -> PortfolioArgs]
    /\ data = [c \in Callers |-> NoPortfolioData]
    /\ srv_portfolios \in SUBSET {NameText(2), NameText(MaxNumberLen)}
    /\ c_pc = [c \in Callers |-> "validate"]
    /\ portfolios = [c \in Callers |-> 0]
    /\ software_version_code = <<>>
    /\ job_type = None
    /\ event_rate_scheme_response = NoSchemes
    /\ event_rate_scheme_id = NoneInt
    /\ GroupingIdle
    /\ LookupIdle
    /\ BuildIdle
    /\ ExportIdle
    /\ BridgeIdle
    /\ CurrencyIdle
    /\ EdmIdle
    /\ ExecIdle
    /\ TagIdle
    /\ PollIdle
    /\ BatchIdle
    /\ PagedIdle
    /\ SrvIdle

\* What no step of a caller changes.
portfolioFrame == <<op, o_pc, args, software_version_code, job_type,
                    event_rate_scheme_response, event_rate_scheme_id,
                    groupingVars, lookupVars, buildVars, exportVars,
                    bridgeVars, currencyVars, edmVars, execVars, tagVars,
                    pollVars, batchVars, pagedVars, srvVars>>

Raise(c, e) ==
    /\ c_pc' = [c_pc EXCEPT ![c] = "raised"]
    /\ o_error' = [o_error EXCEPT ![c] = e]

\* validate_non_empty_string(edm_name), (portfolio_name).
PortfolioValidate(c) ==
    /\ op = "PortfolioManager.create_portfolio"
    /\ c_pc[c] = "validate"
    /\ IF \/ ValidateNonEmptyStringRaises(args[c].edm_name)
          \/ Len(args[c].portfolio_name) = 0
          THEN Raise(c, ValidationError)
          ELSE c_pc' = [c_pc EXCEPT ![c] = "edm"] /\ UNCHANGED o_error
    /\ UNCHANGED <<requests, o_result, data, srv_portfolios, portfolios,
                   portfolioFrame>>

\* search_edms and the extraction of exposure_id.
PortfolioSearchEdm(c) ==
    /\ op = "PortfolioManager.create_portfolio"
    /\ c_pc[c] = "edm"
    /\ \E succeeded \in BOOLEAN :
          /\ requests' = Append(requests,
                CallerRequest(c, "GET", "SEARCH_EDMS", succeeded))
          /\ \/ Raise(c, APIError)
             \/ /\ succeeded
                /\ c_pc' = [c_pc EXCEPT ![c] = "search"]
                /\ UNCHANGED o_error
    /\ UNCHANGED <<o_result, data, srv_portfolios, portfolios,
                   portfolioFrame>>

\* search_portfolios by name, and the refusal of a name that is found.
PortfolioSearch(c) ==
    /\ op = "PortfolioManager.create_portfolio"
    /\ c_pc[c] = "search"
    /\ \/ /\ requests' = Append(requests,
                CallerRequest(c, "GET", "SEARCH_PORTFOLIOS", FALSE))
          /\ Raise(c, APIError)
          /\ UNCHANGED portfolios
       \/ LET n == IF args[c].portfolio_name \in srv_portfolios
                      THEN 1 ELSE 0
          IN  /\ requests' = Append(requests,
                    CallerRequest(c, "GET", "SEARCH_PORTFOLIOS", TRUE))
              /\ portfolios' = [portfolios EXCEPT ![c] = n]
              /\ IF PortfolioExists(n)
                    THEN Raise(c, APIError)
                    ELSE /\ c_pc' = [c_pc EXCEPT ![c] = "create"]
                         /\ UNCHANGED o_error
    /\ UNCHANGED <<o_result, data, srv_portfolios, portfolioFrame>>

\* The creation request and the extraction of the id of the new portfolio.
PortfolioCreate(c) ==
    /\ op = "PortfolioManager.create_portfolio"
    /\ c_pc[c] = "create"
    /\ data' = [data EXCEPT ![c] = PortfolioData(args[c])]
    /\ \/ /\ requests' = Append(requests,
                CallerRequest(c, "POST", "CREATE_PORTFOLIO", FALSE))
          /\ Raise(c, APIError)
          /\ UNCHANGED <<o_result, srv_portfolios>>
       \/ /\ requests' = Append(requests,
                CallerRequest(c, "POST", "CREATE_PORTFOLIO", TRUE))
          /\ srv_portfolios' = srv_portfolios \cup {args[c].portfolio_name}
          /\ \/ Raise(c, APIError) /\ UNCHANGED o_result
             \/ /\ c_pc' = [c_pc EXCEPT ![c] = "returned"]
                /\ o_result' = [o_result EXCEPT ![c] = 950 + c]
                /\ UNCHANGED o_error
    /\ UNCHANGED <<portfolios, portfolioFrame>>

PortfolioNext ==
    \E c \in Callers :
       \/ PortfolioValidate(c)
       \/ PortfolioSearchEdm(c)
       \/ PortfolioSearch(c)
       \/ PortfolioCreate(c)

PortfolioSpec == PortfolioInit /\ [][PortfolioNext]_vars

\* The calls that send a number cut to NUMBER_LENGTH characters.
NumberedInit == TreatyInit \/ PortfolioInit

NumberedNext == TreatyNext \/ PortfolioNext

NumberedSpec == NumberedInit /\ [][NumberedNext]_vars

(***************************************************************************)
(* C1.  A single-job poller returns normally only with the body of a fetch *)
(* whose status is FINISHED, FAILED or CANCELLED, and it returns at the    *)
(* first such fetch; after fetching any other status it does not return    *)
(* that body: it sleeps and fetches again, or raises.                      *)
(***************************************************************************)
C1_ReturnsFirstTerminalFetch ==
    /\ [](p_pc = "returned" =>
            /\ p_result = job_data
            /\ job_data.status \in {"FINISHED", "FAILED", "CANCELLED"})
    /\ [][p_pc = "fetch" /\ p_pc' # "fetch" => ~seen_terminal]_vars
    /\ [][p_pc = "check" /\ status \in {"FINISHED", "FAILED", "CANCELLED"}
            => p_pc' = "returned" /\ p_result' = job_data]_vars
    /\ [][p_pc = "check" /\ status \notin {"FINISHED", "FAILED", "CANCELLED"}
            => \/ p_pc' = "raised" /\ p_result' = NoBody
               \/ /\ p_pc' = "fetch"
                  /\ p_result' = NoBody
                  /\ sleeps' = sleeps + 1
                  /\ clock' >= Min(clock + interval, ClockCap)]_vars

\* A call that fetched a non-terminal status, slept, fetched again and
\* returned.
C1_Witness ==
    /\ op = "poll"
    /\ p_pc = "returned"
    /\ fetches >= 2
    /\ sleeps >= 1

(***************************************************************************)
(* C2.  A single-job poller that fetches a non-terminal status when the    *)
(* elapsed time exceeds the timeout raises IRPJobError carrying the status *)
(* fetched in that iteration and fetches no more; every call ends, and one *)
(* whose fetches all succeed and never show a terminal status ends with    *)
(* that error.                                                             *)
(***************************************************************************)
C2_TimeoutRaisesJobError ==
    /\ [][/\ p_pc = "check"
          /\ status \notin {"FINISHED", "FAILED", "CANCELLED"}
          /\ clock - start > timeout
          => /\ p_pc' = "raised"
             /\ p_error' = [kind |-> "IRPJobError", last_status |-> status]
             /\ status = job_data.status
             /\ fetches' = fetches]_vars
    /\ [][p_pc = "raised" => fetches' = fetches /\ p_pc' = "raised"]_vars
    /\ [](p_pc = "returned" => seen_terminal)
    /\ [](p_pc = "raised" /\ p_error.kind = "IRPJobError"
            => /\ clock - start > timeout
               /\ p_error.last_status = job_data.status)
    /\ <>(p_pc \in {"returned", "raised"})

\* A call that slept at least once and then timed out on an in-progress
\* status.
C2_Witness ==
    /\ op = "poll"
    /\ p_pc = "raised"
    /\ p_error.kind = "IRPJobError"
    /\ p_error.last_status \in WORKFLOW_IN_PROGRESS_STATUSES
    /\ sleeps >= 1

(***************************************************************************)
(* C3.  A per-id batch poller returns only in a cycle in which every id of *)
(* job_ids was fetched and none had an in-progress status, and the list it *)
(* returns holds one job body per requested id, in request order.          *)
(***************************************************************************)
C3_BatchReturnsEveryJob ==
    op = "poll_batch" /\ p_pc = "returned" =>
        /\ Len(cycle_fetched) = Len(job_ids)
        /\ \A i \in 1..Len(cycle_fetched) :
              cycle_fetched[i].status \notin WORKFLOW_IN_PROGRESS_STATUSES
        /\ Len(b_result) = Len(job_ids)
        /\ \A i \in 1..Len(b_result) : b_result[i].id = job_ids[i]

(***************************************************************************)
(* C4.  The paged job and analysis batch pollers decide completion only    *)
(* after every requested job id has been observed in the pages accumulated *)
(* in the current cycle, and the list they return holds a job record for   *)
(* every id of job_ids.                                                    *)
(***************************************************************************)
C4_PagedObservesEveryRequestedId ==
    /\ op = "poll_paged_batch"
    /\ poller \in { "JobManager.poll_risk_data_job_batch_to_completion",
                    "AnalysisManager.poll_analysis_job_batch_to_completion" }
    =>
    /\ p_pc = "check" =>
          \A i \in DOMAIN job_ids :
              \E j \in DOMAIN all_jobs : all_jobs[j].id = job_ids[i]
    /\ p_pc = "returned" =>
          \A i \in DOMAIN job_ids :
              \E j \in DOMAIN b_result : b_result[j].id = job_ids[i]

(***************************************************************************)
(* C5.  Every batch poll call terminates: it returns or raises, whatever   *)
(* the search responses are.                                               *)
(***************************************************************************)
C5_BatchPollTerminates ==
    <>(p_pc \in {"returned", "raised"})

(***************************************************************************)
(* C6.  Client.poll_workflow_batch_to_completion returns only when every   *)
(* accumulated workflow has a terminal status.                             *)
(***************************************************************************)
C6_WorkflowBatchReturnsOnlyTerminal ==
    /\ op = "poll_paged_batch"
    /\ poller = "Client.poll_workflow_batch_to_completion"
    /\ p_pc = "returned"
    =>
    \A i \in DOMAIN all_jobs :
        all_jobs[i].status \in {"FINISHED", "FAILED", "CANCELLED"}

(***************************************************************************)
(* C7.  Client.execute_workflow submits the request once.  On a 201 or 202 *)
(* response it polls the URL of the Location header and returns only the   *)
(* final response, whose status is terminal; without a usable Location     *)
(* header it raises IRPAPIError and polls nothing.  On any other response  *)
(* it returns that response unchanged and polls nothing.                   *)
(***************************************************************************)
C7_ExecuteWorkflowSubmitsThenPolls ==
    /\ Len(requests) <= 1
    /\ o_pc # "submit" => Len(requests) = 1
    /\ o_pc = "returned" =>
          /\ response.status_code \notin {201, 202}
          /\ o_result = response
    /\ response # NoResponse /\ response.status_code \notin {201, 202} =>
          /\ o_pc = "returned"
          /\ fetches = 0
          /\ p_pc = "idle"
    /\ /\ response.status_code \in {201, 202}
       /\ response.location \in {Absent, ""}
       => /\ o_pc = "raised"
          /\ o_error.kind = "IRPAPIError"
          /\ fetches = 0
          /\ p_pc = "idle"
    /\ /\ response.status_code \in {201, 202}
       /\ response.location \notin {Absent, ""}
       => /\ o_pc = "polling"
          /\ workflow_url = response.location
          /\ poller = "Client.poll_workflow"
          /\ o_result = NoResponse
          /\ p_pc = "returned" =>
                /\ p_result = job_data
                /\ p_result.status \in {"FINISHED", "FAILED", "CANCELLED"}
                /\ fetches >= 1

\* A 201 submission whose workflow was polled, slept on, polled again and
\* then returned.
C7_Witness ==
    /\ op = "Client.execute_workflow"
    /\ response.status_code = 201
    /\ o_pc = "polling"
    /\ p_pc = "returned"
    /\ sleeps >= 1

(***************************************************************************)
(* C8.  A call that raises IRPValidationError has issued no network        *)
(* request before raising.                                                 *)
(***************************************************************************)
C8_ValidationErrorBeforeAnyRequest ==
    o_pc = "raised" /\ o_error.kind = "IRPValidationError" => requests = <<>>

(***************************************************************************)
(* C9.  EDMManager.delete_edm submits the EDM delete job only when every   *)
(* analysis of the EDM has been deleted by a successful request and none   *)
(* is left on the platform, however many there were; after a failed        *)
(* analysis deletion no delete job is submitted; and it returns only the   *)
(* delete job's body with a terminal status.                               *)
(***************************************************************************)
C9_DeleteEdmAfterEveryAnalysis ==
    /\ \A i \in DOMAIN requests :
          requests[i].path = "DELETE_EDM" =>
              /\ srv_analyses = {}
              /\ \A j \in 1..(i - 1) :
                    requests[j].path = "DELETE_ANALYSIS" => requests[j].ok
    /\ o_pc = "polling" /\ p_pc = "returned" =>
          /\ \E i \in DOMAIN requests :
                requests[i].path = "DELETE_EDM" /\ requests[i].ok
          /\ p_result.status \in {"FINISHED", "FAILED", "CANCELLED"}

(***************************************************************************)
(* C10.  When an EDM of a requested name already exists on the platform,   *)
(* an operation that creates an EDM issues no mutating request: no         *)
(* exposure-set creation, no folder creation, no upload, no creation or    *)
(* import job.                                                             *)
(***************************************************************************)
C10_NoMutationWhenEdmExists ==
    /\ op \in { "EDMManager.submit_create_edm_job",
                "EDMManager.submit_create_edm_jobs",
                "EDMManager.submit_edm_import_job" }
    /\ \E n \in DOMAIN edm_names : edm_names[n] \in srv_edms
    =>
    \A i \in DOMAIN requests : requests[i].method = "GET"

(***************************************************************************)
(* C11. submit_portfolio_analysis_job issues its requests in the order     *)
(* duplicate-name check, EDM, portfolio, treaties, model and output        *)
(* profiles, event rate scheme, tags, currency, job creation.  A call that *)
(* has raised issues no further request, and a request that failed is the  *)
(* last request of the call, except a failed currency lookup: the call     *)
(* then goes on with the default currency and creates the job.             *)
(***************************************************************************)
C11_Rank(path) ==
    CASE path = "SEARCH_ANALYSIS_RESULTS" -> 1
      [] path = "SEARCH_EDMS" -> 2
      [] path = "SEARCH_PORTFOLIOS" -> 3
      [] path = "SEARCH_TREATIES" -> 4
      [] path \in {"GET_MODEL_PROFILES", "GET_OUTPUT_PROFILES"} -> 5
      [] path = "GET_EVENT_RATE_SCHEME" -> 6
      [] path \in {"GET_TAGS", "CREATE_TAG"} -> 7
      [] path = "SEARCH_CURRENCY_SCHEME_VINTAGES" -> 8
      [] path = "CREATE_ANALYSIS_JOB" -> 9

C11_InOrder ==
    /\ \A i, j \in DOMAIN requests :
          i < j => C11_Rank(requests[i].path) <= C11_Rank(requests[j].path)
    /\ \A i, j \in DOMAIN requests :
          /\ i < j
          /\ requests[i].path = "GET_OUTPUT_PROFILES"
          => requests[j].path # "GET_MODEL_PROFILES"

C11_OrderedAndAbortsExceptCurrency ==
    [][ /\ C11_InOrder'
        /\ \A i \in DOMAIN requests' :
              /\ ~requests'[i].ok
              /\ requests'[i].path # "SEARCH_CURRENCY_SCHEME_VINTAGES"
              => i = Len(requests')
        /\ o_pc = "raised" => requests' = requests ]_vars

\* The statement without the exception: a failed request is always the last
\* request of the call.
C11_FailedRequestIsLast ==
    \A i \in DOMAIN requests : ~requests[i].ok => i = Len(requests)

\* A call that went through all nine steps and returned a job id although
\* its currency lookup failed.
C11_Witness ==
    /\ op = "AnalysisManager.submit_portfolio_analysis_job"
    /\ o_pc = "returned"
    /\ \A r \in 1..9 : \E i \in DOMAIN requests :
          C11_Rank(requests[i].path) = r
    /\ \E i \in DOMAIN requests :
          /\ requests[i].path = "SEARCH_CURRENCY_SCHEME_VINTAGES"
          /\ ~requests[i].ok

(***************************************************************************)
(* C13. The job type is HD exactly when the software version code of the   *)
(* model profile contains "HD", and DLM otherwise.  A DLM call without an  *)
(* event rate scheme name raises a reference data error and sends no job   *)
(* creation request; an HD call without one is not refused for it, and     *)
(* the settings it submits have no eventRateSchemeId key.                  *)
(***************************************************************************)
C13_HasHD(code) ==
    \E i \in 1..Len(code) :
        i + 1 <= Len(code) /\ SubSeq(code, i, i + 1) = <<"H", "D">>

C13_JobCreationRequested ==
    \E i \in DOMAIN requests : requests[i].path = "CREATE_ANALYSIS_JOB"

C13_JobTypeAndSchemeRequirement ==
    job_type # None =>
       /\ job_type = IF C13_HasHD(software_version_code) THEN "HD" ELSE "DLM"
       /\ job_type = "DLM" /\ args.event_rate_scheme_name = "" =>
             /\ ~C13_JobCreationRequested
             /\ o_pc \in {"scheme", "raised"}
             /\ o_pc = "raised" => o_error = ReferenceDataError
       /\ job_type = "HD" /\ args.event_rate_scheme_name = "" =>
             /\ o_pc = "raised" => o_error # ReferenceDataError
             /\ C13_JobCreationRequested =>
                   /\ data.type = "HD"
                   /\ "eventRateSchemeId" \notin data.settings

\* An HD job (code RL23HD) submitted without an event rate scheme name.
C13_Witness ==
    /\ op = "AnalysisManager.submit_portfolio_analysis_job"
    /\ o_pc = "returned"
    /\ software_version_code = <<"R", "L", "2", "3", "H", "D">>
    /\ job_type = "HD"
    /\ args.event_rate_scheme_name = ""
    /\ C13_JobCreationRequested

(***************************************************************************)
(* C14. When the event rate scheme lookup of                               *)
(* submit_portfolio_analysis_job answers with zero schemes or with more    *)
(* than one, the call raises and sends no job creation request.            *)
(***************************************************************************)
C14_SchemeLookupAnswered ==
    \E i \in DOMAIN requests :
        requests[i].path = "GET_EVENT_RATE_SCHEME" /\ requests[i].ok

C14_SchemeResolvesToExactlyOne ==
    /\ C14_SchemeLookupAnswered
    /\ event_rate_scheme_response.count # 1
    => /\ o_pc = "raised"
       /\ \A i \in DOMAIN requests :
             requests[i].path # "CREATE_ANALYSIS_JOB"

(***************************************************************************)
(* C12. A submit_analysis_grouping_job call with skip_missing that returns *)
(* has put the names found nowhere into skipped_items and the resolved     *)
(* names into included_items, each name in exactly one of the two.  With a *)
(* resolved name the group was created from exactly the resolved resources *)
(* and the result says skipped = false; with none the result says skipped  *)
(* = true, carries no job id, and no group creation request was sent.      *)
(***************************************************************************)
C12_Missing(name) == srv_matches[name] = 0

C12_Resolved(name) == srv_matches[name] # 0

C12_Elements(seq) == { seq[i] : i \in DOMAIN seq }

C12_GroupCreationRequested ==
    \E i \in DOMAIN requests : requests[i].path = "CREATE_ANALYSIS_GROUP"

C12_SkipMissingPartitionsTheNames ==
    /\ args.skip_missing /\ o_pc = "returned" =>
          LET missing == SelectSeq(analysis_names, C12_Missing)
              resolved == SelectSeq(analysis_names, C12_Resolved)
          IN  /\ o_result.skipped_items = missing
              /\ o_result.included_items = resolved
              /\ \A i \in DOMAIN analysis_names :
                    (analysis_names[i] \in
                         C12_Elements(o_result.skipped_items))
                    # (analysis_names[i] \in
                         C12_Elements(o_result.included_items))
              /\ resolved # <<>> =>
                    /\ C12_GroupCreationRequested
                    /\ ~o_result.skipped
                    /\ o_result.job_id # NoneInt
                    /\ data.resourceUris =
                          [i \in DOMAIN resolved |-> <<"uri", resolved[i]>>]
              /\ resolved = <<>> =>
                    /\ o_result.skipped
                    /\ o_result.job_id = NoneInt
    /\ /\ args.skip_missing
       /\ \A i \in DOMAIN analysis_names : C12_Missing(analysis_names[i])
       => ~C12_GroupCreationRequested

\* Three members of which two do not exist: the group is created from the
\* one that does.
C12_Witness ==
    /\ op = "AnalysisManager.submit_analysis_grouping_job"
    /\ args.skip_missing
    /\ o_pc = "returned"
    /\ Len(analysis_names) = 3
    /\ Len(o_result.included_items) = 1
    /\ Len(o_result.skipped_items) = 2
    /\ ~o_result.skipped
    /\ C12_GroupCreationRequested

(***************************************************************************)
(* C15. A lookup that needs exactly one match goes on only when its search *)
(* returned exactly one record, and raises on none and on several; the     *)
(* simulation set lookup by region, peril and engine version alone may go  *)
(* on with several, and then with the highest id.                          *)
(***************************************************************************)
C15_TieBreaker ==
    "ReferenceDataManager.get_simulation_set_by_region_peril_and_engine"

C15_ExactlyOneMatchOrRaise ==
    o_pc = "proceeded" =>
       IF op = C15_TieBreaker
          THEN /\ found # <<>>
               /\ \A i \in DOMAIN found : found[i] <= o_result
          ELSE Len(found) = 1

(***************************************************************************)
(* C16. build_region_peril_simulation_set returns an empty list when every *)
(* collected region is ELT and no (peril, region) pair has more than one   *)
(* distinct event rate scheme id.                                          *)
(***************************************************************************)
C16_EveryRegionElt ==
    \A i \in DOMAIN all_regions : all_regions[i].region.framework = "ELT"

C16_SomePairHasTwoSchemes ==
    \E i, j \in 1..(id_idx - 1) :
        /\ srv_infos[i].perilCode = srv_infos[j].perilCode
        /\ srv_infos[i].regionCode = srv_infos[j].regionCode
        /\ srv_infos[i].eventRateSchemeId # NoneInt
        /\ srv_infos[j].eventRateSchemeId # NoneInt
        /\ srv_infos[i].eventRateSchemeId # srv_infos[j].eventRateSchemeId

C16_EmptyWhenEltAndUnambiguous ==
    /\ o_pc = "returned"
    /\ C16_EveryRegionElt
    /\ ~C16_SomePairHasTwoSchemes
    => o_result = <<>>

(***************************************************************************)
(* C17. No two entries of the list build_region_peril_simulation_set       *)
(* returns agree on every field other than engineVersion; the tokens of an *)
(* engineVersion are the versions of the entries merged into it, in        *)
(* descending order, none twice; merging an entry whose version is already *)
(* listed changes nothing.                                                 *)
(***************************************************************************)
C17_Rest(entry) ==
    [ eventRateSchemeId |-> entry.eventRateSchemeId,
      modelRegionCode |-> entry.modelRegionCode,
      modelVersion |-> entry.modelVersion,
      perilCode |-> entry.perilCode,
      regionCode |-> entry.regionCode,
      simulationPeriods |-> entry.simulationPeriods,
      simulationSetId |-> entry.simulationSetId ]

C17_Rank(token) ==
    CASE token = "RL23" -> 3 [] token = "RL22" -> 2 [] token = "HDv2.0" -> 1

C17_MergedByEngineVersion ==
    o_pc = "returned" =>
       /\ \A i, j \in DOMAIN o_result :
             i # j => C17_Rest(o_result[i]) # C17_Rest(o_result[j])
       /\ \A i \in DOMAIN o_result :
             LET versions == o_result[i].engineVersion
             IN  /\ \A k \in 1..(Len(versions) - 1) :
                       C17_Rank(versions[k]) > C17_Rank(versions[k + 1])
                 /\ { versions[k] : k \in DOMAIN versions } =
                       { result[k].engineVersion[1] : k \in
                           { n \in DOMAIN result :
                               C17_Rest(result[n]) = C17_Rest(o_result[i]) } }
       /\ \A k \in DOMAIN result :
             /\ \E i \in DOMAIN o_result :
                   C17_Rest(o_result[i]) = C17_Rest(result[k])
             /\ MergeOne(o_result, result[k]) = o_result

\* RL22 and RL23 merged into one entry "RL23,RL22".
C17_Witness ==
    /\ op = "AnalysisManager.build_region_peril_simulation_set"
    /\ o_pc = "returned"
    /\ \E i \in DOMAIN o_result :
          o_result[i].engineVersion = <<"RL23", "RL22">>

(***************************************************************************)
(* C18. Every PLT region gets an entry with eventRateSchemeId 0 and        *)
(* simulationSetId its PET id, and a failing PET metadata lookup, a region *)
(* without PET id included, never makes the build raise.                   *)
(***************************************************************************)
C18_PltEntryAndNoRaise ==
    /\ o_pc = "returned" /\ o_result # <<>> =>
          \A i \in DOMAIN all_regions :
             all_regions[i].region.framework = "PLT" =>
                \E k \in DOMAIN o_result :
                   /\ o_result[k].eventRateSchemeId = 0
                   /\ o_result[k].simulationSetId =
                         all_regions[i].region.petId
    /\ o_pc = "raised" => all_regions = <<>>

(***************************************************************************)
(* C19. For an ELT region the simulation set lookups are tried in order,   *)
(* by the region's rate scheme id, by the analysis-level event rate scheme *)
(* id, by region, peril and engine version: when a lookup other than the   *)
(* last fails, a later lookup is made for the same region.                 *)
(***************************************************************************)
C19_LaterLookupAfterFailure ==
    \A k \in DOMAIN lookups :
        /\ ~lookups[k].ok
        /\ lookups[k].by # "regionPerilEngine"
        /\ region_idx > lookups[k].region
        => \E m \in DOMAIN lookups :
              m > k /\ lookups[m].region = lookups[k].region

(***************************************************************************)
(* C20. The delete-job poller returns only on the fetched status           *)
(* "Succeeded"; it sleeps and fetches again only while the status is       *)
(* "Enqueued" or "Processing"; every other status raises a job error with  *)
(* that status straight after the fetch that showed it, whether or not the *)
(* timeout has elapsed; an in-progress status fetched after the timeout    *)
(* raises a job error with that status.                                    *)
(***************************************************************************)
C20_JobErrorWith(s) ==
    /\ p_pc' = "raised"
    /\ p_error' = [kind |-> "IRPJobError", last_status |-> s]
    /\ fetches' = fetches

C20_DeleteStatusVocabulary ==
    /\ [](p_pc = "returned" =>
             status = "Succeeded" /\ p_result.status = "Succeeded")
    /\ [][p_pc = "check" =>
            /\ p_pc' = "returned" <=> status = "Succeeded"
            /\ p_pc' = "fetch" =>
                  status \in {"Enqueued", "Processing"}
            /\ status \in {"Enqueued", "Processing"}
                  /\ ~(clock - start > timeout) => p_pc' = "fetch"
            /\ status \notin {"Enqueued", "Processing", "Succeeded"} =>
                  C20_JobErrorWith(status)
            /\ status \in {"Enqueued", "Processing"}
                  /\ clock - start > timeout => C20_JobErrorWith(status)
         ]_vars

\* A failure status was fetched after the timeout had elapsed, and the job
\* error carries it.
C20_Witness ==
    /\ poller = DeleteRdmPoller
    /\ p_pc = "raised"
    /\ p_error = [kind |-> "IRPJobError", last_status |-> "Failed"]
    /\ clock - start > timeout
    /\ sleeps > 0

(***************************************************************************)
(* C21. Without a database_id, submit_rdm_export_job sends no export-job   *)
(* request when a database whose name starts with the RDM name exists on   *)
(* the server, and it makes the check before it resolves any analysis      *)
(* name; with a database_id it searches no database, and the settings of   *)
(* the request carry databaseId and no rdmName.                            *)
(***************************************************************************)
C21_Paths(method) ==
    { requests[i].path : i \in { j \in DOMAIN requests :
                                    requests[j].method = method } }

C21_NameTaken ==
    \E n \in srv_databases :
       /\ Len(Chars[args.rdm_name]) <= Len(Chars[n])
       /\ \A i \in 1..Len(Chars[args.rdm_name]) :
             Chars[n][i] = Chars[args.rdm_name][i]

C22_Uploads ==
    CASE op = "EDMManager.submit_edm_import_job" -> <<"exposureFile">>
      [] op = "RDMManager.submit_rdm_import_job" -> <<"resultsFile">>
      [] op = "MRIImportManager.submit_mri_import_job" ->
           IF args.mapping_file_path = None
              THEN <<"accountsFile", "locationsFile">>
              ELSE <<"accountsFile", "locationsFile", "mappingFile">>

C22_At(path) ==
    { i \in DOMAIN requests : requests[i].path = path }

C22_UploadsDone ==
    [ i \in 1..Len(SelectSeq(requests, LAMBDA r : r.method = "UPLOAD")) |->
        SelectSeq(requests, LAMBDA r : r.method = "UPLOAD")[i].path ]

C22_FolderThenUploadsThenJob ==
    /\ \A j \in C22_At("SUBMIT_IMPORT_JOB") :
          /\ j = Len(requests)
          /\ C22_UploadsDone = C22_Uploads
          /\ \E f \in C22_At("CREATE_IMPORT_FOLDER") :
                /\ requests[f].ok
                /\ \A u \in DOMAIN requests :
                      requests[u].method = "UPLOAD" =>
                         f < u /\ u < j /\ requests[u].ok
    /\ (\E i \in DOMAIN requests :
           /\ ~requests[i].ok
           /\ requests[i].method = "UPLOAD"
                 \/ requests[i].path = "CREATE_IMPORT_FOLDER")
          => C22_At("SUBMIT_IMPORT_JOB") = {} /\ o_pc = "raised"

\* An MRI import with a mapping file was submitted.
C22_Witness ==
    /\ op = "MRIImportManager.submit_mri_import_job"
    /\ args.mapping_file_path # None
    /\ o_pc = "returned"
    /\ o_result = 801

(***************************************************************************)
(* C23. Every connection get_connection opened is closed when its scope    *)
(* exits, on normal exit and on an exception raised while it is in use:    *)
(* once execute_query, execute_scalar, execute_command or                  *)
(* execute_query_from_file has returned or raised, no connection the call  *)
(* opened is open.                                                         *)
(***************************************************************************)
C23_NoConnectionLeftOpen ==
    o_pc \in {"returned", "raised"} =>
       \A i \in DOMAIN connections : connections[i] = "closed"

\* The body of the with block raised, and the connection it used is closed.
C23_Witness ==
    /\ op = "DataBridgeManager.execute_query_from_file"
    /\ o_pc = "raised"
    /\ connections = <<"closed">>
    /\ executed # <<>>

(***************************************************************************)
(* C24. Substitution classifies each placeholder occurrence on its own: an *)
(* occurrence in value context (matching none of the identifier patterns)  *)
(* gets the escaped and quoted value, even when the same name occurs in an *)
(* identifier context elsewhere in the query; only the occurrences in      *)
(* identifier context get the raw text.                                    *)
(***************************************************************************)
C24_InValueContext(i) ==
    /\ query[i].kind = "ph"
    /\ ~(\/ IsText(query, i - 1, <<"[">>) /\ IsText(query, i + 1, <<"]">>)
         \/ /\ \E j \in 1..(i - 1) : IsText(query, j, Quote)
            /\ \E k \in (i + 1)..Len(query) : IsText(query, k, Quote)
         \/ IsText(query, i - 1, <<"t", "_">>)
         \/ IsText(query, i + 1, <<"_", "t">>))

C24_EachOccurrenceByItsContext ==
    o_pc = "connect" /\ params.kind = "dict" /\ DOMAIN params.items # {} =>
       \A i \in DOMAIN query :
          C24_InValueContext(i) =>
             substituted[i] = _escape_sql_value(params.items[query[i].name])

(***************************************************************************)
(* C25. Whenever a parameter is substituted raw, the text put into the     *)
(* query consists only of alphanumerics, underscore, hyphen, space or      *)
(* slash, whatever the type of the value; a value with another character   *)
(* raises an error naming the parameter and no query is executed.          *)
(***************************************************************************)
C25_Allowed ==
    {"a", "b", "t", "1", "5", "7", "N", "o", "n", "e", "_", "-", " ", "/"}

C25_RawAt(i) ==
    /\ query[i].kind = "ph"
    /\ params.kind = "dict"
    /\ query[i].name \in DOMAIN params.items
    /\ \E k \in DOMAIN query :
          /\ query[k].kind = "ph"
          /\ query[k].name = query[i].name
          /\ ~C24_InValueContext(k)

C25_RawTextIsIdentifierText ==
    /\ \A n \in DOMAIN executed : \A i \in DOMAIN query :
          C25_RawAt(i) =>
             \A c \in DOMAIN executed[n][i] : executed[n][i][c] \in C25_Allowed
    /\ (\E i \in DOMAIN query :
           /\ C25_RawAt(i)
           /\ \E c \in DOMAIN params.items[query[i].name].text :
                 params.items[query[i].name].text[c] \notin C25_Allowed)
          /\ op = "DataBridgeManager.execute_query"
          /\ o_pc \notin {"read", "substitute"}
          => /\ o_pc = "raised"
             /\ o_error.kind = "IRPDataBridgeQueryError"
             /\ o_error.parameter \in ParamNames
             /\ executed = <<>>

(***************************************************************************)
(* C26. A placeholder whose name is not among the supplied parameters      *)
(* makes the substitution raise a query error that names it and lists the  *)
(* supplied ones, for every params argument, the empty dict and None       *)
(* included: no query is executed with a placeholder left in its text.     *)
(***************************************************************************)
C26_Supplied ==
    IF params.kind = "dict" THEN DOMAIN params.items ELSE {}

C26_MissingNames ==
    { query[i].name : i \in { j \in DOMAIN query : query[j].kind = "ph" } }
       \ C26_Supplied

C26_MissingParameterRaises ==
    /\ \A n \in DOMAIN executed : \A i \in DOMAIN executed[n] :
          executed[n][i] \notin { Placeholder(key).s : key \in ParamNames }
    /\ /\ op = "DataBridgeManager.execute_query"
       /\ C26_MissingNames # {}
       /\ o_pc \notin {"read", "substitute"}
       =>
          /\ o_pc = "raised"
          /\ o_error.kind = "IRPDataBridgeQueryError"
          /\ o_error.parameter \in C26_MissingNames
             \/ o_error.parameter \in C26_Supplied
          /\ connections = <<>>

(***************************************************************************)
(* C27. get_analysis_currency never raises: when the latest-vintage lookup *)
(* fails in any way (request error, empty result, a vintage record that    *)
(* lacks a needed field) it returns the hardcoded default currency dict,   *)
(* and it returns a dict built from the latest vintage only when the       *)
(* lookup fully succeeds.                                                  *)
(***************************************************************************)
C27_LookupSucceeds ==
    /\ vintages_response.ok
    /\ vintages_response.has_items
    /\ vintages_response.items # <<>>
    /\ \A i \in DOMAIN vintages_response.items :
          vintages_response.items[i].fields =
             {"effectiveDate", "currencySchemeCode", "vintage"}

C27_NeverRaisesDefaultOnFailure ==
    /\ o_pc # "raised"
    /\ o_pc = "returned" /\ ~vintages_response.ok =>
          o_result.asOfDate = "2025-05-28"
    /\ o_pc = "returned" /\ vintages_response.ok /\ ~C27_LookupSucceeds =>
          o_result.vintage = "RL25"

(***************************************************************************)
(* C28. A timeout in a poller of the HTTP client core                      *)
(* (Client.poll_workflow_to_completion, Client.poll_workflow,              *)
(* Client.poll_workflow_batch_to_completion) raises IRPWorkflowError, the  *)
(* same error kind in all three.                                           *)
(***************************************************************************)
C28_ClientPollers ==
    { "Client.poll_workflow_to_completion", "Client.poll_workflow",
      "Client.poll_workflow_batch_to_completion" }

C28_ClientTimeoutIsWorkflowError ==
    /\ poller \in C28_ClientPollers
    /\ p_pc = "raised"
    /\ p_error.kind # "IRPAPIError"
    => p_error.kind = "IRPWorkflowError"

(***************************************************************************)
(* C29. In Client.poll_workflow_to_completion and Client.poll_workflow a   *)
(* fetched body without the status field or without the progress field     *)
(* raises an API error at that very fetch; such a body never counts as a   *)
(* non-terminal status that keeps the loop polling.                        *)
(***************************************************************************)
C29_MalformedBodyRaisesAtItsFetch ==
    [][ /\ poller \in {"Client.poll_workflow_to_completion",
                       "Client.poll_workflow"}
        /\ p_pc = "fetch"
        /\ p_pc' # "fetch"
        /\ job_data'.status = "<absent>" \/ job_data'.progress = "<absent>"
        => /\ p_pc' = "raised"
           /\ p_error'.kind = "IRPAPIError" ]_vars

(***************************************************************************)
(* C30.  TreatyManager.create_treaty raises a validation error before any  *)
(* request when a numeric argument (priority included) is negative or when *)
(* treaty_type, attachment_basis or attachment_level is not in its lookup  *)
(* table; no creation request carries a negative numeric field.            *)
(***************************************************************************)
C30_Negative == {f \in NumericArgs : args.numbers[f] < 0}

C30_UnknownCode ==
    \/ args.treaty_type \notin DOMAIN TREATY_TYPES
    \/ args.attachment_basis \notin DOMAIN TREATY_ATTACHMENT_BASES
    \/ args.attachment_level \notin DOMAIN TREATY_ATTACHMENT_LEVELS

C30_NoNegativeFieldReachesThePlatform ==
    op = "TreatyManager.create_treaty" =>
       /\ C30_Negative # {} \/ C30_UnknownCode =>
             /\ requests = <<>>
             /\ o_pc # "validate" =>
                   o_pc = "raised" /\ o_error = ValidationError
       /\ \A i \in DOMAIN requests :
             requests[i].path = "CREATE_TREATY" =>
                \A f \in NumericArgs : data.numbers[f] >= 0

(***************************************************************************)
(* C31.  TreatyManager.create_treaty returns a treaty id only after the    *)
(* creation request succeeded and then exactly one LOB request succeeded   *)
(* for each LOB of the EDM; no LOB request precedes the creation of the    *)
(* treaty, and a failed LOB request makes the call raise.                  *)
(***************************************************************************)
C31_LobRequests(lob_id) ==
    {i \in DOMAIN requests :
        /\ requests[i].path = "CREATE_TREATY_LOB"
        /\ requests[i].lobId = lob_id}

C31_Created(i) ==
    \E j \in 1..(i - 1) :
       requests[j].path = "CREATE_TREATY" /\ requests[j].ok

C31_ReturnsAfterTreatyAndEveryLob ==
    op = "TreatyManager.create_treaty" =>
       /\ o_pc = "returned" =>
             /\ o_result # NoneInt
             /\ \A i \in DOMAIN found :
                   /\ Cardinality(C31_LobRequests(found[i])) = 1
                   /\ \A k \in C31_LobRequests(found[i]) :
                         requests[k].ok /\ C31_Created(k)
       /\ \A i \in DOMAIN requests :
             requests[i].path = "CREATE_TREATY_LOB" =>
                /\ C31_Created(i)
                /\ requests[i].lobId \in {found[k] : k \in DOMAIN found}
                /\ ~requests[i].ok =>
                      o_pc = "raised" /\ o_error = APIError

C31_Witness ==
    /\ op = "TreatyManager.create_treaty"
    /\ o_pc = "returned"
    /\ Len(found) = 2
    /\ Cardinality({i \in DOMAIN requests :
                       requests[i].path = "CREATE_TREATY_LOB"}) = 2

(***************************************************************************)
(* C32.  AnalysisManager.poll_analysis_job_to_completion alternates fetch  *)
(* and sleep: when the first terminal status comes with fetch k and the    *)
(* timeout was not exceeded before, it returns at that fetch without       *)
(* raising, after exactly k fetches and k-1 sleeps (QUEUED, RUNNING,       *)
(* FINISHED: the third fetch, two sleeps).  The counts are followed up to  *)
(* MaxPolls fetches.                                                       *)
(***************************************************************************)
C32_Poller == "AnalysisManager.poll_analysis_job_to_completion"

C32_KFetchesKMinusOneSleeps ==
    /\ [](poller = C32_Poller /\ p_pc = "fetch" =>
            ~seen_terminal /\ fetches = sleeps)
    /\ [](poller = C32_Poller /\ p_pc \in {"check", "returned"}
             /\ fetches <= MaxPolls => fetches = sleeps + 1)
    /\ [][poller = C32_Poller /\ p_pc = "fetch" /\ fetches < MaxPolls =>
             fetches' = fetches + 1 /\ sleeps' = sleeps]_vars
    /\ [][poller = C32_Poller /\ p_pc = "check" /\ p_pc' = "fetch"
             /\ sleeps < MaxPolls =>
             sleeps' = sleeps + 1 /\ fetches' = fetches]_vars
    /\ [][/\ poller = C32_Poller
          /\ p_pc = "check"
          /\ status \in {"FINISHED", "FAILED", "CANCELLED"}
          => /\ p_pc' = "returned"
             /\ p_result' = job_data
             /\ p_error' = NoError
             /\ fetches' = fetches
             /\ sleeps' = sleeps]_vars

\* The call returned FINISHED at its third fetch, having slept twice.
C32_Witness ==
    /\ op = "poll"
    /\ poller = C32_Poller
    /\ p_pc = "returned"
    /\ p_result.status = "FINISHED"
    /\ fetches = 3
    /\ sleeps = 2

(***************************************************************************)
(* C33.  EDMManager.validate_unique_edms, its search answered, raises      *)
(* exactly when one of the given names exists on the platform; the error   *)
(* names the given names that exist and no other; when none exists the     *)
(* call goes on without raising.                                           *)
(***************************************************************************)
C33_Given == {edm_names[i] : i \in DOMAIN edm_names}

C34_FirstTwenty(input, sent) ==
    /\ Len(input) > 20 =>
          Len(sent) = 20 /\ \A i \in 1..20 : sent[i] = input[i]
    /\ Len(input) <= 20 => sent = input

C34_Sent(path) == {i \in DOMAIN requests : requests[i].path = path}

C35_NoTwoJobsForOneName ==
    op = "EDMManager.submit_create_edm_jobs" =>
       /\ \A i, j \in DOMAIN o_result :
             i # j => edm_names[i] # edm_names[j]
       /\ Len(o_result) > 0 =>
             requests[1] = Request("GET", "SEARCH_EDMS", TRUE)

(***************************************************************************)
(* C36.  When the simulation set lookup made for an ELT region fails,      *)
(* AnalysisManager.build_region_peril_simulation_set still produces the    *)
(* entry of the region (unless an earlier region had its key), and the     *)
(* entry has simulationSetId, eventRateSchemeId and simulationPeriods all  *)
(* 0, whatever rate scheme id the region carries.                          *)
(***************************************************************************)
C36_FailedLookup ==
    /\ o_pc = "build"
    /\ all_regions[region_idx].region.framework # "PLT"
    /\ Len(lookups') = Len(lookups) + 1
    /\ ~lookups'[Len(lookups')].ok

C36_ZerosWhenLookupFails ==
    [][ C36_FailedLookup =>
          /\ o_pc' # "raised"
          /\ Len(result') = Len(result) + 1 =>
                LET entry == result'[Len(result')]
                IN  /\ entry.simulationSetId = 0
                    /\ entry.eventRateSchemeId = 0
                    /\ entry.simulationPeriods = 0 ]_vars

(***************************************************************************)
(* C37.  The existence pre-check of PortfolioManager.create_portfolio does *)
(* not make creation atomic.  A caller sends the creation request only     *)
(* after its own search for the name, and only when that search found      *)
(* nothing; as long as no other caller has created the name, the name is   *)
(* then still absent when the request is sent.  Two callers can both       *)
(* search before either creates, and then both send the creation request   *)
(* for the same name: the state C37_Witness.                               *)
(***************************************************************************)
C37_Creations(c) ==
    {i \in DOMAIN requests :
        requests[i].path = "CREATE_PORTFOLIO" /\ requests[i].caller = c}

C37_Searched(c, i) ==
    \E j \in 1..(i - 1) :
       /\ requests[j] = CallerRequest(c, "GET", "SEARCH_PORTFOLIOS", TRUE)

C37_CreatedByAnother(c) ==
    \E i \in DOMAIN requests :
       /\ requests[i].path = "CREATE_PORTFOLIO"
       /\ requests[i].ok
       /\ requests[i].caller # c
       /\ args[requests[i].caller].portfolio_name = args[c].portfolio_name

C37_PreCheckGuardsOnlyItsOwnCaller ==
    /\ [](op = "PortfolioManager.create_portfolio" =>
            \A c \in Callers : \A i \in C37_Creations(c) :
               portfolios[c] = 0 /\ C37_Searched(c, i))
    /\ [][op = "PortfolioManager.create_portfolio" =>
            \A c \in Callers :
               /\ c_pc[c] = "create"
               /\ c_pc'[c] # "create"
               /\ ~C37_CreatedByAnother(c)
               => args[c].portfolio_name \notin srv_portfolios]_vars

\* Both callers searched for the same name, found nothing, and both sent a
\* creation request that the platform accepted.
C37_Witness ==
    /\ op = "PortfolioManager.create_portfolio"
    /\ args[1].portfolio_name = args[2].portfolio_name
    /\ \A c \in Callers :
          /\ portfolios[c] = 0
          /\ \E i \in C37_Creations(c) :
                requests[i].ok /\ C37_Searched(c, i)

(***************************************************************************)
(* C38.  In every single-job poller the terminal check precedes the        *)
(* timeout check of the same iteration: a call whose arguments passed the  *)
(* validation fetches at least once before it ends, however small the      *)
(* timeout, and a terminal status fetched after the timeout has elapsed is *)
(* returned normally; a timeout error never carries a terminal status.     *)
(***************************************************************************)
C38_Terminal == {"FINISHED", "FAILED", "CANCELLED"}

C38_TerminalCheckBeforeTimeoutCheck ==
    /\ [](op = "poll" /\ p_pc \in {"check", "returned", "raised"}
            => fetches >= 1)
    /\ [][/\ op = "poll"
          /\ p_pc = "check"
          /\ status \in C38_Terminal
          /\ clock - start > timeout
          => /\ p_pc' = "returned"
             /\ p_result' = job_data
             /\ p_error' = NoError]_vars
    /\ [](op = "poll" /\ p_pc = "raised" /\ p_error.kind # "IRPAPIError"
            => p_error.last_status \notin C38_Terminal)

\* A call that returned a terminal status fetched after the timeout had
\* elapsed.
C38_Witness ==
    /\ op = "poll"
    /\ p_pc = "returned"
    /\ clock - start > timeout
    /\ p_result.status \in C38_Terminal

====
